---------------------------- MODULE Spec2Model ----------------------------
(***************************************************************************)
(* Edit-session state machine of the three.js scene editor: object         *)
(* registry, selection manager, transform mutators, gizmo drag, bounded    *)
(* undo/redo history over whole-scene snapshots and the persistence codec. *)
(*                                                                         *)
(* Numbers.  Lengths and scales are integers in tenths of a unit (0.5 is   *)
(* 5, SCALE_LIMITS.min = 0.1 is 1).  A rotation component is the stored    *)
(* radian value expressed in whole degrees.  Floating-point rounding is    *)
(* not modelled.                                                           *)
(* Object identity.  A mesh is a record with a field ref, its JavaScript   *)
(* identity; 0 is null.  A mesh that left the registry is garbage unless   *)
(* the selection, the hover or the gizmo still points at it: only its ref  *)
(* is kept then.                                                           *)
(***************************************************************************)
EXTENDS Integers, Sequences, FiniteSets, TLC

(***************************** bounds ***************************************)
\* createHistory's parameter limit (50 by default), kept small here
limit == 2
\* largest number of meshes the registry holds in explored behaviours
MaxObjects == 2
\* events handled in one run
MaxEvents == 4

(***************************** constants.js *********************************)
OBJECT_TYPES == {"box", "sphere", "cylinder"}

DEFAULT_COLORS == [t \in OBJECT_TYPES |->
    CASE t = "box" -> 31436 [] t = "sphere" -> 16739179 [] OTHER -> 5164484]

\* DEFAULT_DIMENSIONS as the extent of the geometry's bounding box (tenths)
DEFAULT_DIMENSIONS == [t \in OBJECT_TYPES |-> <<10, 10, 10>>]

WORKSPACE_BOUNDS == [minX |-> -100, maxX |-> 100, minY |-> 0, maxY |-> 200,
                     minZ |-> -100, maxZ |-> 100]

GRID_CONFIG == [size |-> 10]

SCALE_LIMITS == [min |-> 1, max |-> 100]

ROTATION_LIMITS == [min |-> 0, max |-> 360]

(***************************** utils.js *************************************)
NULL == 0

Axes == {"x", "y", "z"}

AxisIndex(axis) == CASE axis = "x" -> 1 [] axis = "y" -> 2 [] OTHER -> 3

Max(a, b) == IF a >= b THEN a ELSE b

Min(a, b) == IF a <= b THEN a ELSE b

Abs(a) == IF a < 0 THEN -a ELSE a

\* JavaScript's % : the remainder takes the sign of the dividend
JsRem(a, n) == IF a >= 0 THEN a % n ELSE -((-a) % n)

\* Math.round(v / g) * g : halves round towards +Infinity
RoundTo(v, g) == ((2 * v + g) \div (2 * g)) * g

(* JavaScript values that may fail to be finite numbers (text typed into an *)
(* input, a scalar of a parsed JSON document) are records: finite says     *)
(* whether the value is a finite number, num is that number (0 otherwise). *)
JNum(n) == [finite |-> TRUE, num |-> n]

JBad == [finite |-> FALSE, num |-> 0]

\* a parsed JSON array; array is FALSE for a value that is not an array
JArray(elems) == [array |-> TRUE, elems |-> elems]

JNoArray == [array |-> FALSE, elems |-> << >>]

JVec(v) == JArray([i \in 1..Len(v) |-> JNum(v[i])])

\* the texts typed into the numeric inputs, with the number parseFloat reads
\* (parseFloat reads the number a text starts with: 12 for "12abc")
NumericText ==
    [s \in {"-150", "-90", "-50", "-30", "0", "12abc", "20", "200", "360", "450"} |->
        CASE s = "-150" -> -150 [] s = "-90" -> -90 [] s = "-50" -> -50
          [] s = "-30" -> -30 [] s = "0" -> 0 [] s = "12abc" -> 12
          [] s = "20" -> 20 [] s = "200" -> 200 [] s = "360" -> 360
          [] OTHER -> 450]

\* Number.parseFloat on a string: NaN for "", "abc", "NaN"; Infinity for
\* "Infinity"
parseFloat(text) == IF text \in DOMAIN NumericText THEN JNum(NumericText[text])
                    ELSE JBad

\* Number(text): as parseFloat on these texts, except that Number("") is 0
\* and that a text with anything after its number is NaN
ToNumber(text) == IF text = "" THEN JNum(0)
                  ELSE IF text = "12abc" THEN JBad
                  ELSE parseFloat(text)

\* Number.isFinite
IsFinite(v) == v.finite

\* safeParseNumber(value, fallback), value already read by parseFloat
safeParseNumber(value, fallback) == IF IsFinite(value) THEN value.num ELSE fallback

isValidNumberArray(arr, expectedLength) ==
    /\ arr.array
    /\ Len(arr.elems) = expectedLength
    /\ \A i \in 1..Len(arr.elems) : IsFinite(arr.elems[i])

validatePosition(position) ==
    /\ position[1] >= WORKSPACE_BOUNDS.minX /\ position[1] <= WORKSPACE_BOUNDS.maxX
    /\ position[2] >= WORKSPACE_BOUNDS.minY /\ position[2] <= WORKSPACE_BOUNDS.maxY
    /\ position[3] >= WORKSPACE_BOUNDS.minZ /\ position[3] <= WORKSPACE_BOUNDS.maxZ

\* clampPosition that leaves the Y axis alone
clampPosition_keepsY(position) ==
    << Max(WORKSPACE_BOUNDS.minX, Min(WORKSPACE_BOUNDS.maxX, position[1])),
       position[2],
       Max(WORKSPACE_BOUNDS.minZ, Min(WORKSPACE_BOUNDS.maxZ, position[3])) >>

clampPosition(position) ==
    << Max(WORKSPACE_BOUNDS.minX, Min(WORKSPACE_BOUNDS.maxX, position[1])),
       Max(WORKSPACE_BOUNDS.minY, Min(WORKSPACE_BOUNDS.maxY, position[2])),
       Max(WORKSPACE_BOUNDS.minZ, Min(WORKSPACE_BOUNDS.maxZ, position[3])) >>

validateRotation(rotation) ==
    \A i \in 1..3 : /\ rotation[i] >= ROTATION_LIMITS.min
                    /\ rotation[i] <= ROTATION_LIMITS.max

clampDeg(deg) == LET r == JsRem(deg, 360) IN IF r < 0 THEN r + 360 ELSE r

clampRotation(rotation) ==
    << clampDeg(rotation[1]), clampDeg(rotation[2]), clampDeg(rotation[3]) >>

validateScale(scale) ==
    \A i \in 1..3 : scale[i] >= SCALE_LIMITS.min /\ scale[i] <= SCALE_LIMITS.max

clampScale(scale) ==
    [i \in 1..3 |-> Max(SCALE_LIMITS.min, Min(SCALE_LIMITS.max, scale[i]))]

(* THREE.Box3().setFromObject(mesh): the world box of the geometry's        *)
(* bounding box (centred on the origin, extent mesh.size) under scale,     *)
(* rotation (Euler order XYZ) and position.  A box is [min, max] in units  *)
(* of 1/200, so that half extents stay integers.  The extents are exact    *)
(* for the multiples of 90 degrees that the rotation inputs of this model  *)
(* produce: a quarter turn about an axis swaps the two other extents.      *)
QuarterOdd(deg) == (Abs(deg) \div 90) % 2 = 1

Swap(e, i, j, doIt) == IF doIt THEN [e EXCEPT ![i] = e[j], ![j] = e[i]] ELSE e

HalfExtent(mesh) ==
    LET e0 == [i \in 1..3 |-> mesh.size[i] * Abs(mesh.scale[i])]
        e1 == Swap(e0, 1, 2, QuarterOdd(mesh.rotation[3]))
        e2 == Swap(e1, 1, 3, QuarterOdd(mesh.rotation[2]))
    IN  Swap(e2, 2, 3, QuarterOdd(mesh.rotation[1]))

Box3(mesh) ==
    LET h == HalfExtent(mesh)
    IN  [min |-> [i \in 1..3 |-> 20 * mesh.position[i] - h[i]],
         max |-> [i \in 1..3 |-> 20 * mesh.position[i] + h[i]]]

\* Box3.intersectsBox: closed boxes, touching faces intersect
intersectsBox(a, b) ==
    \A i \in 1..3 : ~(b.max[i] < a.min[i] \/ b.min[i] > a.max[i])

checkObjectOverlap(obj1, obj2) == intersectsBox(Box3(obj1), Box3(obj2))

\* cos and sin of attempts * 0.5 * PI
Cos4(attempts) == CASE attempts % 4 = 0 -> 1 [] attempts % 4 = 2 -> -1 [] OTHER -> 0

Sin4(attempts) == CASE attempts % 4 = 1 -> 1 [] attempts % 4 = 3 -> -1 [] OTHER -> 0

maxAttempts == 50

hasOverlap(tempObj, existingObjects) ==
    \E k \in 1..Len(existingObjects) : checkObjectOverlap(tempObj, existingObjects[k])

\* the position the loop body computes at a given count of attempts
spiralShift(targetPos, attempts, gridSize) ==
    LET radius == (attempts \div 4) + 1
        x == targetPos[1] + Cos4(attempts) * radius * gridSize
        z == targetPos[3] + Sin4(attempts) * radius * gridSize
    IN  << Max(WORKSPACE_BOUNDS.minX, Min(WORKSPACE_BOUNDS.maxX, x)),
           targetPos[2],
           Max(WORKSPACE_BOUNDS.minZ, Min(WORKSPACE_BOUNDS.maxZ, z)) >>

RECURSIVE spiralSearch(_, _, _, _, _, _)
spiralSearch(targetPos, testPos, attempts, object, existingObjects, gridSize) ==
    IF attempts >= maxAttempts THEN targetPos
    ELSE IF ~hasOverlap([object EXCEPT !.position = testPos], existingObjects)
         THEN testPos
         ELSE spiralSearch(targetPos, spiralShift(targetPos, attempts, gridSize),
                           attempts + 1, object, existingObjects, gridSize)

\* the first shifted position, returned without being tested
findNonOverlappingPosition_untested(targetPos, object, existingObjects, gridSize) ==
    IF hasOverlap([object EXCEPT !.position = targetPos], existingObjects)
    THEN spiralShift(targetPos, 0, gridSize)
    ELSE targetPos

findNonOverlappingPosition(targetPos, object, existingObjects, gridSize) ==
    spiralSearch(targetPos, targetPos, 0, object, existingObjects, gridSize)

\* the whole height instead of half of it
getObjectHeight_full(size) == size[2]

\* half of the height of the geometry's bounding box
getObjectHeight(size) == size[2] \div 2

(***************************** transform.js *********************************)
SetAxis(vec, axis, v) == [vec EXCEPT ![AxisIndex(axis)] = v]

updateObjectPosition(object, axis, value) ==
    LET parsed == safeParseNumber(value, object.position[AxisIndex(axis)])
        moved  == SetAxis(object.position, axis, parsed)
    IN  [object EXCEPT !.position =
            IF validatePosition(moved) THEN moved ELSE clampPosition(moved)]

\* updateObjectRotationDeg without the normalisation to 0-360
updateObjectRotationDeg_clampOnly(object, axis, degValue) ==
    LET parsed0 == safeParseNumber(degValue, object.rotation[AxisIndex(axis)])
        parsed  == Max(ROTATION_LIMITS.min, Min(ROTATION_LIMITS.max, parsed0))
    IN  [object EXCEPT !.rotation = SetAxis(@, axis, parsed)]

updateObjectRotationDeg(object, axis, degValue) ==
    LET parsed0 == safeParseNumber(degValue, object.rotation[AxisIndex(axis)])
        parsed1 == JsRem(parsed0, 360)
        parsed2 == IF parsed1 < 0 THEN parsed1 + 360 ELSE parsed1
        parsed  == Max(ROTATION_LIMITS.min, Min(ROTATION_LIMITS.max, parsed2))
        turned  == SetAxis(object.rotation, axis, parsed)
    IN  [object EXCEPT !.rotation =
            IF validateRotation(turned) THEN turned ELSE clampRotation(turned)]

\* updateObjectScale without a clamp
updateObjectScale_noClamp(object, axis, value) ==
    [object EXCEPT !.scale = SetAxis(@, axis, safeParseNumber(value, @[AxisIndex(axis)]))]

updateObjectScale(object, axis, value) ==
    LET parsed0 == safeParseNumber(value, object.scale[AxisIndex(axis)])
        parsed  == Max(SCALE_LIMITS.min, Min(SCALE_LIMITS.max, parsed0))
        scaled  == SetAxis(object.scale, axis, parsed)
    IN  [object EXCEPT !.scale =
            IF validateScale(scaled) THEN scaled ELSE clampScale(scaled)]

(***************************** meshes ****************************************)
(* A mesh of the registry: ref (identity), userData.type, userData.id,     *)
(* userData.name, position, rotation, scale, material colour and size, the *)
(* extent of its geometry's bounding box.  A name is [text, suffix]: the   *)
(* default name of a loaded mesh is its type followed by a prefix of its   *)
(* id, written [text |-> type, suffix |-> id].                             *)
Name(text) == [text |-> text, suffix |-> NULL]

NoName == Name("")

TypeLabel(type) == CASE type = "box" -> "Box" [] type = "sphere" -> "Sphere"
                     [] OTHER -> "Cylinder"

Refs(objs) == {objs[k].ref : k \in 1..Len(objs)}

Ids(objs) == {objs[k].id : k \in 1..Len(objs)}

\* the least positive number outside used: a new identity, or the id
\* generateUUID draws, taken to differ from every id still in use
Fresh(used) == CHOOSE n \in 1..(Cardinality(used) + 1) :
                   n \notin used /\ \A m \in 1..(n - 1) : m \in used

IndexOf(objs, ref) == IF \E k \in 1..Len(objs) : objs[k].ref = ref
                      THEN CHOOSE k \in 1..Len(objs) : objs[k].ref = ref
                      ELSE 0

Remove(objs, k) == [j \in 1..(Len(objs) - 1) |-> IF j < k THEN objs[j] ELSE objs[j + 1]]

\* objects.js removeObjectFromRegistry: indexOf, then splice
removeObjectFromRegistry(objs, ref) ==
    LET index == IndexOf(objs, ref) IN IF index > 0 THEN Remove(objs, index) ELSE objs

\* objects.js addObjectToRegistry
addObjectToRegistry(objs, mesh) ==
    IF mesh.ref \in Refs(objs) THEN objs ELSE Append(objs, mesh)

\* options.position left out
NoPosition == [given |-> FALSE, at |-> << 0, 0, 0 >>]

Position(at) == [given |-> TRUE, at |-> at]

(* objects.js createMesh followed by addBox / addSphere / addCylinder:     *)
(* the new mesh and whether its position was shifted.  Without             *)
(* options.position the anchor is the origin raised by half the height.    *)
createMeshAt(type, ref, id, position, snapToGrid, gridSize, checkOverlap, objs) ==
    LET size  == DEFAULT_DIMENSIONS[type]
        x0    == IF position.given THEN position.at[1] ELSE 0
        y0    == IF position.given THEN position.at[2] ELSE getObjectHeight(size)
        z0    == IF position.given THEN position.at[3] ELSE 0
        x1    == IF snapToGrid THEN RoundTo(x0, gridSize) ELSE x0
        y1    == IF snapToGrid THEN Max(RoundTo(y0, gridSize), gridSize \div 2) ELSE y0
        z1    == IF snapToGrid THEN RoundTo(z0, gridSize) ELSE z0
        p1    == << x1, y1, z1 >>
        originalPos == IF validatePosition(p1) THEN p1 ELSE clampPosition(p1)
        blank == [ref |-> ref, type |-> type, id |-> id, name |-> Name(TypeLabel(type)),
                  position |-> << 0, 0, 0 >>, rotation |-> << 0, 0, 0 >>,
                  scale |-> << 10, 10, 10 >>, color |-> DEFAULT_COLORS[type],
                  size |-> size]
        finalPos == IF checkOverlap /\ Len(objs) > 0
                    THEN findNonOverlappingPosition(originalPos, blank, objs,
                                                    IF snapToGrid THEN gridSize ELSE 5)
                    ELSE originalPos
        d2 == (finalPos[1] - originalPos[1]) * (finalPos[1] - originalPos[1])
              + (finalPos[3] - originalPos[3]) * (finalPos[3] - originalPos[3])
    IN  [mesh |-> [blank EXCEPT !.position = finalPos], positionShifted |-> d2 > 1]

\* createMesh as the editor calls it: options.position is never passed
createMesh(type, ref, id, snapToGrid, gridSize, checkOverlap, objs) ==
    createMeshAt(type, ref, id, NoPosition, snapToGrid, gridSize, checkOverlap, objs)

(***************************** persistence.js *******************************)
\* serializeScene: the snapshot of the registry and of the camera
serializeScene(objs, cam) ==
    [objects |-> [k \in 1..Len(objs) |->
                    [type |-> objs[k].type, id |-> objs[k].id, name |-> objs[k].name,
                     position |-> objs[k].position, rotation |-> objs[k].rotation,
                     scale |-> objs[k].scale, color |-> objs[k].color]],
     camera |-> cam]

(* The document a snapshot is when loadSceneData reads it back: an object  *)
(* root with an objects array and a camera block.  Every record of a       *)
(* snapshot has a name, so the load never looks at the type of its id.     *)
SnapshotData(snapshot) ==
    [root |-> "object",
     objects |-> [k \in 1..Len(snapshot.objects) |->
                    LET o == snapshot.objects[k] IN
                    [object |-> TRUE, type |-> o.type, id |-> o.id, idText |-> TRUE,
                     name |-> o.name,
                     position |-> JVec(o.position), rotation |-> JVec(o.rotation),
                     scale |-> JVec(o.scale), color |-> JNum(o.color)]],
     camera |-> [present |-> TRUE, position |-> JVec(snapshot.camera.position),
                 target |-> JVec(snapshot.camera.target),
                 fov |-> JNum(snapshot.camera.fov)]]

\* the extent of the bounding box of the geometry buildGeometry makes
buildGeometry(type) == CASE type = "box" -> << 10, 10, 10 >>
                         [] type = "sphere" -> << 12, 12, 12 >>
                         [] OTHER -> << 10, 15, 10 >>

validateItem(item) ==
    /\ item.object
    /\ item.type \in OBJECT_TYPES
    /\ isValidNumberArray(item.position, 3)
    /\ isValidNumberArray(item.scale, 3)
    /\ item.rotation.array /\ Len(item.rotation.elems) >= 3
    /\ \A i \in 1..3 : IsFinite(item.rotation.elems[i])

Nums(arr) == [i \in 1..3 |-> arr.elems[i].num]

\* one accepted record of loadSceneData's forEach, made into a mesh
restoreMesh(item, ref, newId) ==
    LET position == Nums(item.position)
        rotation == Nums(item.rotation)
        scale    == Nums(item.scale)
        objectId == IF item.id # NULL THEN item.id ELSE newId
    IN  [ref |-> ref, type |-> item.type, id |-> objectId,
         name |-> IF item.name.text # "" THEN item.name
                  ELSE [text |-> item.type, suffix |-> objectId],
         position |-> IF validatePosition(position) THEN position
                      ELSE clampPosition(position),
         rotation |-> IF validateRotation(rotation) THEN rotation
                      ELSE clampRotation(rotation),
         scale |-> IF validateScale(scale) THEN scale ELSE clampScale(scale),
         color |-> safeParseNumber(item.color, DEFAULT_COLORS[item.type]),
         size |-> buildGeometry(item.type)]

\* objectId.substring(0, 4) of the default name throws for an id that is
\* truthy and no string (item.id is NULL for an absent or falsy id, idText
\* says that it is a string)
nameThrows(item) == item.id # NULL /\ ~item.idText /\ item.name.text = ""

(* loadSceneData's forEach over the records: acc is [objects, loadedCount, *)
(* skippedCount, aborted]; usedRefs and usedIds are the identities and ids *)
(* a new mesh must differ from.  An exception ends the loop with the       *)
(* registry as the records before it left it.                              *)
RECURSIVE loadItems(_, _, _, _)
loadItems(items, acc, usedRefs, usedIds) ==
    IF items = << >> THEN acc
    ELSE LET item == Head(items) IN
         IF ~validateItem(item)
         THEN loadItems(Tail(items), [acc EXCEPT !.skippedCount = @ + 1],
                        usedRefs, usedIds)
         ELSE IF nameThrows(item) THEN [acc EXCEPT !.aborted = TRUE]
         ELSE LET ref  == Fresh(usedRefs \cup Refs(acc.objects))
                  mesh == restoreMesh(item, ref, Fresh(usedIds \cup Ids(acc.objects)))
              IN  loadItems(Tail(items),
                            [acc EXCEPT !.objects = addObjectToRegistry(@, mesh),
                                        !.loadedCount = @ + 1],
                            usedRefs, usedIds \cup {mesh.id})

\* the camera block of loadSceneData: each valid field is restored by itself
restoreCamera(cam, cameraData) ==
    IF ~cameraData.present THEN cam
    ELSE [position |-> IF isValidNumberArray(cameraData.position, 3)
                       THEN Nums(cameraData.position) ELSE cam.position,
          target |-> IF isValidNumberArray(cameraData.target, 3)
                     THEN Nums(cameraData.target) ELSE cam.target,
          fov |-> IF IsFinite(cameraData.fov) /\ cameraData.fov.num > 0
                     /\ cameraData.fov.num < 180
                  THEN cameraData.fov.num ELSE cam.fov]

\* a root check that lets every root pass
ValidRoot_any(data) == TRUE

ValidRoot(data) == data.root \in {"array", "object"}

ItemIds(items) == {items[k].id : k \in 1..Len(items)} \ {NULL}

(***************************** history.js ***********************************)
\* push without the shift that drops the oldest snapshot
push_noShift(stack, data) == Append(stack, data)

\* push that writes over the newest snapshot of the stack
push_overTop(stack, data) ==
    IF stack = << >> THEN << data >>
    ELSE Append(SubSeq(stack, 1, Len(stack) - 1), data)

\* push: structuredClone, append, drop the oldest beyond limit
push(stack, data) ==
    LET pushed == Append(stack, data)
    IN  IF Len(pushed) > limit THEN Tail(pushed) ELSE pushed

Pop(stack) == SubSeq(stack, 1, Len(stack) - 1)

Top(stack) == stack[Len(stack)]

(***************************** state *****************************************)
VARIABLES
    objects,                 \* objects.js: the registry, in insertion order
    selectedObject,          \* selection.js: ref of the selected mesh or NULL
    hoveredObject,           \* selection.js: ref of the hovered mesh or NULL
    attached,                \* transformControl.object: ref or NULL
    gizmoVisible,            \* transformControl.visible
    highlighted,             \* refs of the meshes with the selection emissive
    isDragging,              \* controls.js: a gizmo drag is in progress
    transformSnapshotTaken,  \* main.js: the snapshot-taken flag
    undoStack, redoStack,    \* history.js
    camera,                  \* [position, target, fov] of camera and orbit
    snapEnabled,             \* main.js: the snap-to-grid toggle
    anims,                   \* refs whose creation animation has frames left
    render,                  \* main.js: renderPending, the frame callbacks of
                             \* requestRender that wait, renders of the last frame
    reads,                   \* documents of the file reads not yet completed
    focus,                   \* the numeric input that has the focus, or "none"
    session,                 \* per drag / edit session: snapshots it pushed
    lastOp,                  \* the handler that ran last and what it called
    eventsLeft               \* events the run still handles

vars == << objects, selectedObject, hoveredObject, attached, gizmoVisible,
           highlighted, isDragging, transformSnapshotTaken, undoStack, redoStack,
           camera, snapEnabled, anims, reads, focus, session, lastOp,
           eventsLeft, render >>

\* the selection manager's state with the gizmo it drives; calls collects
\* the arguments onSelectCallback is called with
Sel == [selectedObject |-> selectedObject, hoveredObject |-> hoveredObject,
        attached |-> attached, gizmoVisible |-> gizmoVisible,
        highlighted |-> highlighted, calls |-> << >>]

SetSel(S) ==
    /\ selectedObject' = S.selectedObject
    /\ hoveredObject' = S.hoveredObject
    /\ attached' = S.attached
    /\ gizmoVisible' = S.gizmoVisible
    /\ highlighted' = S.highlighted

(* What lastOp keeps of a handler: its name, the number of record() calls  *)
(* it made, whether it loaded a document, the arguments it gave the        *)
(* selection callback, the stack lengths and the selection it found, the   *)
(* button and the ray of a pointer event, the notification it showed for   *)
(* a placement ("adjusted") or an import ("failed"), the field and the     *)
(* text of an input                                                        *)
(* event, what importScene returned, and the run of snapshots that         *)
(* consecutive record() calls have pushed with the number of undos that    *)
(* followed them.                                                          *)
NoRun == [snaps |-> << >>, undos |-> 0]

\* what importScene returned: nothing (null, or no import at all) or the counts
NoResult == [returned |-> FALSE, loadedCount |-> 0, skippedCount |-> 0]

Run(name, recorded, loaded) ==
    LET snap == serializeScene(objects, camera)
        run  == lastOp.run
    IN  IF recorded > 0
        THEN IF run.undos > 0 \/ Len(run.snaps) >= limit + 5
             THEN [snaps |-> << snap >>, undos |-> 0]
             ELSE [run EXCEPT !.snaps = Append(@, snap)]
        ELSE IF loaded /\ name = "undo" THEN [run EXCEPT !.undos = @ + 1]
        ELSE IF loaded /\ name = "redo" THEN NoRun
        ELSE run

Op(name, recorded, loaded, calls) ==
    [name |-> name, recorded |-> recorded, loaded |-> loaded, calls |-> calls,
     undoBefore |-> Len(undoStack), redoBefore |-> Len(redoStack),
     selBefore |-> selectedObject, button |-> 0, ray |-> << >>,
     notice |-> "", arg |-> << >>, result |-> NoResult,
     run |-> Run(name, recorded, loaded)]

(***************************** main.js: rendering ****************************)
\* nothing requested, no frame callback waiting
Idle == [renderPending |-> FALSE, scheduled |-> 0, rendered |-> 0]

\* requestRender without the test of renderPending
requestRender_noCheck(r) ==
    [r EXCEPT !.renderPending = TRUE, !.scheduled = @ + 1]

\* main.js requestRender: requestAnimationFrame adds one waiting callback
requestRender(r) ==
    IF r.renderPending THEN r
    ELSE [r EXCEPT !.renderPending = TRUE, !.scheduled = @ + 1]

RECURSIVE requestRenderTimes(_, _)
requestRenderTimes(r, n) ==
    IF n = 0 THEN r ELSE requestRenderTimes(requestRender(r), n - 1)

\* a handler that calls requestRender n times
Requests(n) == render' = requestRenderTimes(render, n)

(* the callback requestRender hands to requestAnimationFrame: clears the    *)
(* flag, orbit.update() (with damping it may dispatch 'change', whose       *)
(* listener calls requestRender), then one renderer.render                  *)
renderCallback(r, changed) ==
    LET cleared == [r EXCEPT !.renderPending = FALSE]
        updated == IF changed THEN requestRender(cleared) ELSE cleared
    IN  [updated EXCEPT !.rendered = @ + 1]

RECURSIVE runCallbacks(_, _, _)
runCallbacks(r, n, changed) ==
    IF n = 0 THEN r ELSE runCallbacks(renderCallback(r, changed), n - 1, changed)

(***************************** selection.js *********************************)
\* selectObject without hoveredObject = null
selectObject_keepsHover(S, object) ==
    IF S.selectedObject = object THEN S
    ELSE [S EXCEPT !.selectedObject = object, !.attached = object,
                   !.gizmoVisible = TRUE,
                   !.highlighted = (S.highlighted \ {S.selectedObject}) \cup {object},
                   !.calls = Append(S.calls, object)]

\* selectObject with the early return while a drag is in progress, as an
\* earlier selection.js had it
selectObject_dragGuarded(S, object) ==
    IF isDragging \/ S.selectedObject = object THEN S
    ELSE [selectedObject |-> object, hoveredObject |-> NULL, attached |-> object,
          gizmoVisible |-> TRUE,
          highlighted |-> (S.highlighted \ {S.selectedObject}) \cup {object},
          calls |-> Append(S.calls, object)]

selectObject(S, object) ==
    IF S.selectedObject = object THEN S
    ELSE [selectedObject |-> object, hoveredObject |-> NULL, attached |-> object,
          gizmoVisible |-> TRUE,
          highlighted |-> (S.highlighted \ {S.selectedObject}) \cup {object},
          calls |-> Append(S.calls, object)]

\* deselect without the early return while a drag is in progress
deselect_unguarded(S, dragging) ==
    [S EXCEPT !.selectedObject = NULL, !.attached = NULL,
              !.gizmoVisible = FALSE,
              !.highlighted = S.highlighted \ {S.selectedObject},
              !.calls = Append(S.calls, NULL)]

deselect(S, dragging) ==
    IF dragging THEN S
    ELSE [S EXCEPT !.selectedObject = NULL, !.attached = NULL,
                   !.gizmoVisible = FALSE,
                   !.highlighted = S.highlighted \ {S.selectedObject},
                   !.calls = Append(S.calls, NULL)]

\* outlinePass.hover and outlinePass.clearHover
hover(S, object) == [S EXCEPT !.hoveredObject = object]

clearHover(S) ==
    IF S.hoveredObject # NULL /\ S.hoveredObject # S.selectedObject
    THEN [S EXCEPT !.hoveredObject = NULL] ELSE S

(* A ray is the list of the meshes it goes through, nearest first: the     *)
(* meshes of the registry, and the selected mesh even when it has left the *)
(* registry.  Two hits decide every branch of the handlers.                *)
Rays == LET C == Refs(objects) \cup ({selectedObject} \ {NULL})
        IN  {<< >>} \cup {<< a >> : a \in C}
                    \cup {r \in C \X C : r[1] # r[2]}

\* a press or release: the left button (0) along any ray, the right button
\* (2) along the rays with one hit
Pointers == {[button |-> 0, ray |-> r] : r \in Rays}
            \cup {[button |-> 2, ray |-> r] : r \in {q \in Rays : Len(q) = 1}}

Hits(ray) == {ray[k] : k \in 1..Len(ray)}

\* raycaster.intersectObjects(getObjects(), false)
intersectObjects(ray) == SelectSeq(ray, LAMBDA r : r \in Refs(objects))

\* checkIntersection deciding on the nearest hit alone, as the earlier
\* selection.js did
checkIntersection_nearestOnly(S, ray, dragging) ==
    IF intersectObjects(ray) # << >>
    THEN selectObject(S, Head(intersectObjects(ray)))
    ELSE deselect(S, dragging)

\* checkIntersection without the deselect of a press on empty space
checkIntersection_keepsOnMiss(S, ray, dragging) ==
    IF S.selectedObject # NULL /\ S.selectedObject \in Hits(ray) THEN S
    ELSE IF intersectObjects(ray) # << >>
         THEN selectObject(S, Head(intersectObjects(ray)))
         ELSE S

checkIntersection(S, ray, dragging) ==
    IF S.selectedObject # NULL /\ S.selectedObject \in Hits(ray) THEN S
    ELSE IF intersectObjects(ray) # << >>
         THEN selectObject(S, Head(intersectObjects(ray)))
         ELSE deselect(S, dragging)

(***************************** history.js, main.js **************************)
(* The history with what its serialize and load callbacks read and write:  *)
(* the registry, the camera and the selection manager.                     *)
Current == [objects |-> objects, camera |-> camera, sel |-> Sel,
            undoStack |-> undoStack, redoStack |-> redoStack, loaded |-> FALSE]

\* every id the registry, a snapshot or a document being read still holds
IdsInUse ==
    Ids(objects)
    \cup UNION {Ids(undoStack[k].objects) : k \in 1..Len(undoStack)}
    \cup UNION {Ids(redoStack[k].objects) : k \in 1..Len(redoStack)}
    \cup UNION {ItemIds(reads[k].data.objects) : k \in 1..Len(reads)}

(* loadSceneData past the root check: deselect, empty the registry, load   *)
(* the records, restore the camera; aborted says that it threw instead of  *)
(* returning.                                                              *)
loadSceneData(data, S, cam) ==
    LET S1  == deselect(S, isDragging)
        acc == loadItems(data.objects,
                         [objects |-> << >>, loadedCount |-> 0, skippedCount |-> 0,
                          aborted |-> FALSE],
                         {S1.selectedObject, S1.hoveredObject, S1.attached} \ {NULL},
                         IdsInUse \cup ItemIds(data.objects))
    IN  [sel |-> S1, objects |-> acc.objects,
         camera |-> IF acc.aborted THEN cam ELSE restoreCamera(cam, data.camera),
         loadedCount |-> acc.loadedCount, skippedCount |-> acc.skippedCount,
         cameraRestored |-> data.camera.present, aborted |-> acc.aborted]

\* record without redoStack.length = 0
record_keepsRedo(h) ==
    [h EXCEPT !.undoStack = push(@, serializeScene(h.objects, h.camera)),
              !.loaded = FALSE]

\* undo without the return on an empty stack, up to the failing load
undo_noEmptyCheck(h) ==
    [h EXCEPT !.redoStack = push(@, serializeScene(h.objects, h.camera)),
              !.undoStack = IF @ = << >> THEN @ ELSE Pop(@),
              !.loaded = FALSE]

\* history.record()
record(h) ==
    [h EXCEPT !.undoStack = push(@, serializeScene(h.objects, h.camera)),
              !.redoStack = << >>,
              !.loaded = FALSE]

\* undo that leaves the snapshot it loads on the undo stack
undo_keepsTop(h) ==
    IF h.undoStack = << >> THEN [h EXCEPT !.loaded = FALSE]
    ELSE LET current  == serializeScene(h.objects, h.camera)
             previous == Top(h.undoStack)
             L == loadSceneData(SnapshotData(previous), h.sel, h.camera)
         IN  [objects |-> L.objects, camera |-> L.camera, sel |-> L.sel,
              undoStack |-> h.undoStack,
              redoStack |-> push(h.redoStack, current),
              loaded |-> TRUE]

\* history.undo()
undo(h) ==
    IF h.undoStack = << >> THEN [h EXCEPT !.loaded = FALSE]
    ELSE LET current  == serializeScene(h.objects, h.camera)
             previous == Top(h.undoStack)
             L == loadSceneData(SnapshotData(previous), h.sel, h.camera)
         IN  [objects |-> L.objects, camera |-> L.camera, sel |-> L.sel,
              undoStack |-> Pop(h.undoStack),
              redoStack |-> push(h.redoStack, current),
              loaded |-> TRUE]

\* history.redo()
redo(h) ==
    IF h.redoStack = << >> THEN [h EXCEPT !.loaded = FALSE]
    ELSE LET current == serializeScene(h.objects, h.camera)
             next    == Top(h.redoStack)
             L == loadSceneData(SnapshotData(next), h.sel, h.camera)
         IN  [objects |-> L.objects, camera |-> L.camera, sel |-> L.sel,
              undoStack |-> push(h.undoStack, current),
              redoStack |-> Pop(h.redoStack),
              loaded |-> TRUE]

canUndo(h) == Len(h.undoStack) > 0

canRedo(h) == Len(h.redoStack) > 0

InitWith(events) ==
    /\ eventsLeft = events
    /\ objects = << >>
    /\ selectedObject = NULL
    /\ hoveredObject = NULL
    /\ attached = NULL
    /\ gizmoVisible = FALSE
    /\ highlighted = {}
    /\ isDragging = FALSE
    /\ transformSnapshotTaken = FALSE
    /\ camera = [position |-> << 180, 180, 180 >>, target |-> << 0, 0, 0 >>, fov |-> 50]
    /\ undoStack = << serializeScene(<< >>, camera) >>
    /\ redoStack = << >>
    /\ snapEnabled = FALSE
    /\ anims = {}
    /\ reads = << >>
    /\ focus = "none"
    /\ render = Idle
    /\ session = [drag |-> 0, edit |-> 0, editing |-> FALSE]
    /\ lastOp = [name |-> "init", recorded |-> 1, loaded |-> FALSE,
                 calls |-> << >>, undoBefore |-> 0, redoBefore |-> 0,
                 selBefore |-> NULL, button |-> 0, ray |-> << >>,
                 notice |-> "", arg |-> << >>, result |-> NoResult,
                 run |-> [snaps |-> << serializeScene(<< >>, camera) >>,
                          undos |-> 0]]

Init == InitWith(MaxEvents)

(***************************** inputs ****************************************)
\* snapConfig: translate 1, rotateDeg 15, scale 0.1
snapConfig == [translate |-> 10, rotateDeg |-> 15, scale |-> 1]

\* the fields that are typed into, one of each kind
Fields == {"pos-x", "rot-y", "scale-z"}

FieldKind(field) == CASE field \in {"pos-x", "pos-y", "pos-z"} -> "pos"
                      [] field \in {"rot-x", "rot-y", "rot-z"} -> "rot"
                      [] OTHER -> "scale"

FieldAxis(field) == CASE field \in {"pos-x", "rot-x", "scale-x"} -> "x"
                      [] field \in {"pos-y", "rot-y", "scale-y"} -> "y"
                      [] OTHER -> "z"

\* the texts typed into a field of each kind
Texts(kind) == CASE kind = "pos" -> {"abc", "-150"}
                 [] kind = "rot" -> {"450"}
                 [] OTHER -> {""}

\* the component a gizmo drag leaves on one axis: TransformControls writes
\* the mesh directly and does not keep it inside any limits
GizmoValues(kind) == CASE kind = "pos" -> {-120}
                       [] kind = "rot" -> {-90}
                       [] OTHER -> {-10}

\* the axis a drag works on in each mode
GizmoAxis(kind) == CASE kind = "pos" -> "x"
                     [] kind = "rot" -> "y"
                     [] OTHER -> "z"

\* the views orbiting and the camera animations reach
Views == { [position |-> << 80, 50, 80 >>, target |-> << 0, 10, 0 >>] }

\* the scale a creation animation frame sets before its last frame
AnimScale == << 5, 5, 5 >>

Item(type, id, name, position, rotation, scale, color) ==
    [object |-> TRUE, type |-> type, id |-> id, idText |-> TRUE, name |-> name,
     position |-> position, rotation |-> rotation, scale |-> scale, color |-> color]

NoCamera == [present |-> FALSE, position |-> JNoArray, target |-> JNoArray, fov |-> JBad]

\* the files offered to the import: text is "ok", "syntax" (not JSON) or
\* "large" (over the size limit); data is what JSON.parse returns
ImportDocs ==
    { [text |-> "ok",
       data |-> [root |-> "object",
                 objects |-> << Item("box", NULL, NoName, JVec(<< 150, -20, 0 >>),
                                     JVec(<< -90, 0, 720 >>), JVec(<< 0, 10, 300 >>),
                                     JBad) >>,
                 camera |-> NoCamera]],
      [text |-> "ok",
       data |-> [root |-> "array",
                 objects |-> << Item("sphere", 7, Name("Ball"), JVec(<< 10, 5, 0 >>),
                                     JVec(<< 0, 0, 0 >>), JVec(<< 10, 10, 10 >>),
                                     JNum(255)),
                                Item("box", 8, NoName, JVec(<< 1, 2 >>),
                                     JVec(<< 0, 0, 0 >>), JVec(<< 10, 10, 10 >>),
                                     JNum(255)) >>,
                 camera |-> NoCamera]],
      [text |-> "ok",
       data |-> [root |-> "array",
                 objects |-> << Item("box", 9, Name("Twin"), JVec(<< 20, 5, 0 >>),
                                     JVec(<< 0, 0, 0 >>), JVec(<< 10, 10, 10 >>),
                                     JNum(255)),
                                Item("cylinder", 9, Name("Twin"), JVec(<< -20, 5, 0 >>),
                                     JVec(<< 0, 90, 0 >>), JVec(<< 10, 10, 10 >>),
                                     JNum(255)) >>,
                 camera |-> NoCamera]],
      [text |-> "ok",
       data |-> [root |-> "other", objects |-> << >>, camera |-> NoCamera]],
      [text |-> "syntax",
       data |-> [root |-> "other", objects |-> << >>, camera |-> NoCamera]] }

\* file reads in flight at once
MaxReads == 1

(***************************** handlers *************************************)
\* every handler takes one event of those the run still handles
Tick == eventsLeft > 0 /\ eventsLeft' = eventsLeft - 1

Alive(objs) == anims \cap Refs(objs)

SetMesh(objs, mesh) == [k \in 1..Len(objs) |->
                           IF objs[k].ref = mesh.ref THEN mesh ELSE objs[k]]

MeshOf(ref) == objects[IndexOf(objects, ref)]

\* onPointerMove without the early return while a drag is in progress
PointerMove_whileDragging(ray) ==
    /\ Tick
    /\ Requests(1)
    /\ LET hits == intersectObjects(ray)
           S == IF hits # << >>
                THEN IF Head(hits) # hoveredObject /\ Head(hits) # selectedObject
                     THEN hover(Sel, Head(hits)) ELSE Sel
                ELSE clearHover(Sel)
       IN  SetSel(S)
    /\ lastOp' = [Op("pointermove", 0, FALSE, << >>) EXCEPT !.ray = ray]
    /\ UNCHANGED << objects, isDragging, transformSnapshotTaken, undoStack,
                    redoStack, camera, snapEnabled, anims, reads, focus, session >>

\* selection.js onPointerMove
PointerMove(ray) ==
    /\ Tick
    /\ Requests(IF isDragging THEN 0
                ELSE IF intersectObjects(ray) = << >> THEN 1
                ELSE IF Head(intersectObjects(ray)) # hoveredObject
                        /\ Head(intersectObjects(ray)) # selectedObject THEN 1
                ELSE 0)
    /\ LET hits == intersectObjects(ray)
           S == IF isDragging THEN Sel
                ELSE IF hits # << >>
                     THEN IF Head(hits) # hoveredObject /\ Head(hits) # selectedObject
                          THEN hover(Sel, Head(hits)) ELSE Sel
                     ELSE clearHover(Sel)
       IN  SetSel(S)
    /\ lastOp' = [Op("pointermove", 0, FALSE, << >>) EXCEPT !.ray = ray]
    /\ UNCHANGED << objects, isDragging, transformSnapshotTaken, undoStack,
                    redoStack, camera, snapEnabled, anims, reads, focus, session >>

\* selection.js onPointerDown
PointerDown(button, ray) ==
    /\ Tick
    /\ Requests(IF button # 0 \/ isDragging THEN 0
                ELSE IF selectedObject # NULL /\ selectedObject \in Hits(ray) THEN 0
                ELSE 1)
    /\ LET S == IF button # 0 \/ isDragging THEN Sel
                ELSE checkIntersection(Sel, ray, isDragging)
       IN  /\ SetSel(S)
           /\ lastOp' = [Op("pointerdown", 0, FALSE, S.calls) EXCEPT
                           !.button = button, !.ray = ray]
    /\ UNCHANGED << objects, isDragging, transformSnapshotTaken, undoStack,
                    redoStack, camera, snapEnabled, anims, reads, focus, session >>

(* selection.js onPointerUp; click says that the pointer went up less than *)
(* 200 ms after and less than DRAG_THRESHOLD pixels from where it went     *)
(* down.                                                                   *)
PointerUp(button, click, ray) ==
    /\ Tick
    /\ Requests(IF button # 0 \/ ~click \/ isDragging THEN 0
                ELSE IF selectedObject # NULL /\ selectedObject \in Hits(ray) THEN 0
                ELSE 1)
    /\ LET S == IF button # 0 \/ ~click \/ isDragging THEN Sel
                ELSE IF selectedObject # NULL /\ selectedObject \in Hits(ray) THEN Sel
                ELSE IF intersectObjects(ray) # << >>
                     THEN IF Head(intersectObjects(ray)) # selectedObject
                          THEN selectObject(Sel, Head(intersectObjects(ray))) ELSE Sel
                     ELSE deselect(Sel, isDragging)
       IN  /\ SetSel(S)
           /\ lastOp' = [Op(IF click THEN "click" ELSE "pointerup", 0, FALSE, S.calls)
                           EXCEPT !.button = button, !.ray = ray]
    /\ UNCHANGED << objects, isDragging, transformSnapshotTaken, undoStack,
                    redoStack, camera, snapEnabled, anims, reads, focus, session >>

\* the exposed selectionManager.deselect()
DeselectCall ==
    /\ Tick
    /\ Requests(0)
    /\ LET S == deselect(Sel, isDragging)
       IN  SetSel(S) /\ lastOp' = Op("deselect", 0, FALSE, S.calls)
    /\ UNCHANGED << objects, isDragging, transformSnapshotTaken, undoStack,
                    redoStack, camera, snapEnabled, anims, reads, focus, session >>

\* the exposed selectionManager.selectObject(obj) for a mesh of the registry
SelectCall(ref) ==
    /\ Tick
    /\ Requests(1)
    /\ ref \in Refs(objects)
    /\ LET S == selectObject(Sel, ref)
       IN  SetSel(S) /\ lastOp' = [Op("select", 0, FALSE, S.calls) EXCEPT !.arg = << ref >>]
    /\ UNCHANGED << objects, isDragging, transformSnapshotTaken, undoStack,
                    redoStack, camera, snapEnabled, anims, reads, focus, session >>

\* controls.js dragging-changed with value true, main.js onTransformStart
DragStart ==
    /\ Tick
    /\ Requests(1)
    /\ ~isDragging /\ attached # NULL
    /\ isDragging' = TRUE
    /\ transformSnapshotTaken' = TRUE
    /\ undoStack' = IF transformSnapshotTaken THEN undoStack ELSE record(Current).undoStack
    /\ redoStack' = IF transformSnapshotTaken THEN redoStack
                        ELSE record(Current).redoStack
    /\ session' = [session EXCEPT !.drag = IF transformSnapshotTaken THEN 0 ELSE 1]
    /\ lastOp' = Op("dragstart", IF transformSnapshotTaken THEN 0 ELSE 1, FALSE, << >>)
    /\ UNCHANGED << objects, selectedObject, hoveredObject, attached, gizmoVisible,
                    highlighted, camera, snapEnabled, anims, reads, focus >>

\* TransformControls moving, turning or scaling the attached mesh on a drag
GizmoChange(kind, axis, v) ==
    /\ Tick
    /\ Requests(1)
    /\ isDragging /\ attached # NULL
    /\ objects' = IF attached \in Refs(objects)
                  THEN LET m == MeshOf(attached) IN
                       SetMesh(objects,
                               CASE kind = "pos" ->
                                      [m EXCEPT !.position = SetAxis(@, axis, v)]
                                 [] kind = "rot" ->
                                      [m EXCEPT !.rotation = SetAxis(@, axis, v)]
                                 [] OTHER ->
                                      [m EXCEPT !.scale = SetAxis(@, axis, v)])
                  ELSE objects
    /\ lastOp' = Op("gizmochange", 0, FALSE, << >>)
    /\ UNCHANGED << selectedObject, hoveredObject, attached, gizmoVisible,
                    highlighted, isDragging, transformSnapshotTaken, undoStack,
                    redoStack, camera, snapEnabled, anims, reads, focus, session >>

\* controls.js dragging-changed with value false, main.js onTransformEnd
DragEnd ==
    /\ Tick
    /\ Requests(2)
    /\ isDragging
    /\ isDragging' = FALSE
    /\ transformSnapshotTaken' = FALSE
    /\ session' = [session EXCEPT !.drag = 0]
    /\ lastOp' = Op("dragend", 0, FALSE, << >>)
    /\ UNCHANGED << objects, selectedObject, hoveredObject, attached, gizmoVisible,
                    highlighted, undoStack, redoStack, camera, snapEnabled, anims,
                    reads, focus >>

\* the value an input handler passes on: rounded to the snap step when snap
\* is on, the text itself (read by parseFloat) otherwise
InputValue(kind, text) ==
    LET step == CASE kind = "pos" -> snapConfig.translate
                  [] kind = "rot" -> snapConfig.rotateDeg
                  [] OTHER -> snapConfig.scale
        n == ToNumber(text)
    IN  IF snapEnabled
        THEN IF IsFinite(n) THEN JNum(RoundTo(n.num, step)) ELSE JBad
        ELSE parseFloat(text)

\* main.js: the input listener of a position, rotation or scale field
Input(field, text) ==
    /\ Tick
    /\ Requests(IF selectedObject = NULL THEN 0 ELSE 1)
    /\ focus \in {"none", field}
    /\ focus' = field
    /\ IF selectedObject = NULL
       THEN /\ lastOp' = [Op("input", 0, FALSE, << >>) EXCEPT !.arg = << field, text >>]
            /\ UNCHANGED << objects, transformSnapshotTaken, undoStack, redoStack,
                            session >>
       ELSE /\ transformSnapshotTaken' = TRUE
            /\ undoStack' = IF transformSnapshotTaken THEN undoStack
                            ELSE record(Current).undoStack
            /\ redoStack' = IF transformSnapshotTaken THEN redoStack
                        ELSE record(Current).redoStack
            /\ session' = [session EXCEPT
                             !.editing = TRUE,
                             !.edit = IF transformSnapshotTaken THEN @ ELSE Min(@ + 1, 2)]
            /\ lastOp' = [Op("input", IF transformSnapshotTaken THEN 0 ELSE 1,
                             FALSE, << >>) EXCEPT !.arg = << field, text >>]
            /\ objects' =
                 IF selectedObject \in Refs(objects)
                 THEN LET m == MeshOf(selectedObject)
                          value == InputValue(FieldKind(field), text)
                          axis == FieldAxis(field)
                      IN  SetMesh(objects,
                                  CASE FieldKind(field) = "pos" ->
                                         updateObjectPosition(m, axis, value)
                                    [] FieldKind(field) = "rot" ->
                                         updateObjectRotationDeg(m, axis, value)
                                    [] OTHER -> updateObjectScale(m, axis, value))
                 ELSE objects
    /\ UNCHANGED << selectedObject, hoveredObject, attached, gizmoVisible,
                    highlighted, isDragging, camera, snapEnabled, anims, reads >>

\* main.js: the blur listener of a position, rotation or scale field
Blur ==
    /\ Tick
    /\ Requests(0)
    /\ focus # "none"
    /\ focus' = "none"
    /\ transformSnapshotTaken' = FALSE
    /\ session' = [session EXCEPT !.editing = FALSE, !.edit = 0]
    /\ lastOp' = Op("blur", 0, FALSE, << >>)
    /\ UNCHANGED << objects, selectedObject, hoveredObject, attached, gizmoVisible,
                    highlighted, isDragging, undoStack, redoStack, camera,
                    snapEnabled, anims, reads >>

\* main.js addObjectWithHistory, from an add button or the keys b, s, c, in
\* a registry that holds fewer than cap meshes
AddObjectUpTo(type, cap) ==
    /\ Tick
    /\ Requests(4)
    /\ focus = "none"
    /\ Len(objects) < cap
    /\ LET made == createMesh(type,
                              Fresh(Refs(objects)
                                    \cup ({selectedObject, hoveredObject, attached} \ {NULL})),
                              Fresh(IdsInUse), snapEnabled, snapConfig.translate,
                              TRUE, objects)
           obj == [made.mesh EXCEPT !.scale = << 1, 1, 1 >>]
           S == selectObject(Sel, obj.ref)
       IN  /\ undoStack' = record(Current).undoStack
           /\ redoStack' = record(Current).redoStack
           /\ objects' = Append(objects, obj)
           /\ anims' = anims \cup {obj.ref}
           /\ SetSel(S)
           /\ camera' = [camera EXCEPT !.target = obj.position]
           /\ lastOp' = [Op("add", 1, FALSE, S.calls) EXCEPT
                            !.notice = IF made.positionShifted THEN "adjusted" ELSE ""]
    /\ UNCHANGED << isDragging, transformSnapshotTaken, snapEnabled, reads, focus,
                    session >>

AddObject(type) == AddObjectUpTo(type, MaxObjects)

\* main.js animateCreation on a later frame; last says that the 200 ms are over
AnimFrame(ref, last) ==
    /\ Tick
    /\ Requests(1)
    /\ ref \in anims
    /\ objects' = SetMesh(objects, [MeshOf(ref) EXCEPT
                                      !.scale = IF last THEN << 10, 10, 10 >>
                                                ELSE AnimScale])
    /\ anims' = IF last THEN anims \ {ref} ELSE anims
    /\ lastOp' = Op("animframe", 0, FALSE, << >>)
    /\ UNCHANGED << selectedObject, hoveredObject, attached, gizmoVisible,
                    highlighted, isDragging, transformSnapshotTaken, undoStack,
                    redoStack, camera, snapEnabled, reads, focus, session >>

\* main.js: the delete button and the Delete and Backspace keys
DeleteSelected ==
    /\ Tick
    /\ Requests(IF selectedObject = NULL THEN 0 ELSE 1)
    /\ focus = "none"
    /\ IF selectedObject = NULL
       THEN /\ lastOp' = Op("delete", 0, FALSE, << >>)
            /\ UNCHANGED << objects, selectedObject, hoveredObject, attached,
                            gizmoVisible, highlighted, undoStack, redoStack, anims >>
       ELSE LET detached == [Sel EXCEPT !.attached = NULL, !.gizmoVisible = FALSE]
                S == deselect(detached, isDragging)
            IN  /\ undoStack' = record(Current).undoStack
                /\ redoStack' = record(Current).redoStack
                /\ objects' = removeObjectFromRegistry(objects, selectedObject)
                /\ anims' = Alive(removeObjectFromRegistry(objects, selectedObject))
                /\ SetSel(S)
                /\ lastOp' = Op("delete", 1, FALSE, S.calls)
    /\ UNCHANGED << isDragging, transformSnapshotTaken, camera, snapEnabled, reads,
                    focus, session >>

\* main.js: the clear-scene button; confirmed is the answer to confirm()
ClearScene(confirmed) ==
    /\ Tick
    /\ Requests(IF confirmed THEN 1 ELSE 0)
    /\ focus = "none"
    /\ IF ~confirmed
       THEN /\ lastOp' = Op("clear", 0, FALSE, << >>)
            /\ UNCHANGED << objects, selectedObject, hoveredObject, attached,
                            gizmoVisible, highlighted, undoStack, redoStack, anims >>
       ELSE LET S == deselect(Sel, isDragging)
            IN  /\ undoStack' = record(Current).undoStack
                /\ redoStack' = record(Current).redoStack
                /\ objects' = << >>
                /\ anims' = {}
                /\ SetSel(S)
                /\ lastOp' = Op("clear", 1, FALSE, S.calls)
    /\ UNCHANGED << isDragging, transformSnapshotTaken, camera, snapEnabled, reads,
                    focus, session >>

\* main.js: the change listener of the file input starts a read
ImportChange(doc) ==
    /\ Tick
    /\ Requests(0)
    /\ focus = "none"
    /\ Len(reads) < MaxReads
    /\ undoStack' = record(Current).undoStack
    /\ redoStack' = record(Current).redoStack
    /\ reads' = Append(reads, doc)
    /\ lastOp' = Op("importchange", 1, FALSE, << >>)
    /\ UNCHANGED << objects, selectedObject, hoveredObject, attached, gizmoVisible,
                    highlighted, isDragging, transformSnapshotTaken, camera,
                    snapEnabled, anims, focus, session >>

\* reader.onload: importScene on the text that was read
ReadLoad ==
    /\ Tick
    /\ Requests(1)
    /\ reads # << >>
    /\ reads' = Tail(reads)
    /\ LET doc == Head(reads) IN
       IF doc.text # "ok" \/ ~ValidRoot(doc.data)
       THEN /\ lastOp' = [Op("importfailed", 0, FALSE, << >>) EXCEPT !.notice = "failed"]
            /\ UNCHANGED << objects, selectedObject, hoveredObject, attached,
                            gizmoVisible, highlighted, camera, anims >>
       ELSE LET L == loadSceneData(doc.data, Sel, camera)
            IN  /\ objects' = L.objects
                /\ camera' = L.camera
                /\ anims' = {}
                /\ SetSel(L.sel)
                /\ lastOp' = IF L.aborted
                             THEN [Op("importaborted", 0, TRUE, L.sel.calls) EXCEPT
                                     !.notice = "failed"]
                             ELSE [Op("import", 0, TRUE, L.sel.calls) EXCEPT
                                     !.result = [returned |-> TRUE,
                                                 loadedCount |-> L.loadedCount,
                                                 skippedCount |-> L.skippedCount]]
    /\ UNCHANGED << isDragging, transformSnapshotTaken, undoStack, redoStack,
                    snapEnabled, focus, session >>

\* reader.onerror
ReadError ==
    /\ Tick
    /\ Requests(0)
    /\ reads # << >>
    /\ reads' = Tail(reads)
    /\ lastOp' = Op("readerror", 0, FALSE, << >>)
    /\ UNCHANGED << objects, selectedObject, hoveredObject, attached, gizmoVisible,
                    highlighted, isDragging, transformSnapshotTaken, undoStack,
                    redoStack, camera, snapEnabled, anims, focus, session >>

\* main.js: the undo button and Ctrl+Z
Undo ==
    /\ Tick
    /\ Requests(IF undo(Current).loaded THEN 1 ELSE 0)
    /\ focus = "none"
    /\ LET h == undo(Current)
       IN  /\ undoStack' = h.undoStack
           /\ redoStack' = h.redoStack
           /\ objects' = h.objects
           /\ camera' = h.camera
           /\ anims' = IF h.loaded THEN {} ELSE anims
           /\ SetSel(h.sel)
           /\ lastOp' = Op("undo", 0, h.loaded, h.sel.calls)
    /\ UNCHANGED << isDragging, transformSnapshotTaken, snapEnabled, reads, focus,
                    session >>

\* main.js: the redo button, Ctrl+Shift+Z and Ctrl+Y
Redo ==
    /\ Tick
    /\ Requests(IF redo(Current).loaded THEN 1 ELSE 0)
    /\ focus = "none"
    /\ LET h == redo(Current)
       IN  /\ undoStack' = h.undoStack
           /\ redoStack' = h.redoStack
           /\ objects' = h.objects
           /\ camera' = h.camera
           /\ anims' = IF h.loaded THEN {} ELSE anims
           /\ SetSel(h.sel)
           /\ lastOp' = Op("redo", 0, h.loaded, h.sel.calls)
    /\ UNCHANGED << isDragging, transformSnapshotTaken, snapEnabled, reads, focus,
                    session >>

\* orbiting, and the frames of animateCameraTo
CameraMove(view) ==
    /\ Tick
    /\ Requests(1)
    /\ camera' = [camera EXCEPT !.position = view.position, !.target = view.target]
    /\ lastOp' = Op("camera", 0, FALSE, << >>)
    /\ UNCHANGED << objects, selectedObject, hoveredObject, attached, gizmoVisible,
                    highlighted, isDragging, transformSnapshotTaken, undoStack,
                    redoStack, snapEnabled, anims, reads, focus, session >>

\* main.js: the change listener of the snap toggle
SnapToggle ==
    /\ Tick
    /\ Requests(0)
    /\ focus = "none"
    /\ snapEnabled' = ~snapEnabled
    /\ lastOp' = Op("snap", 0, FALSE, << >>)
    /\ UNCHANGED << objects, selectedObject, hoveredObject, attached, gizmoVisible,
                    highlighted, isDragging, transformSnapshotTaken, undoStack,
                    redoStack, camera, anims, reads, focus, session >>

(* objects.js addBox, addSphere, addCylinder called with every option, in  *)
(* a registry that holds fewer than cap meshes                             *)
AddMesh(type, position, snapToGrid, gridSize, checkOverlap, cap) ==
    /\ Tick
    /\ Requests(0)
    /\ Len(objects) < cap
    /\ objects' = Append(objects,
                         createMeshAt(type,
                                      Fresh(Refs(objects)
                                            \cup ({selectedObject, hoveredObject, attached}
                                                    \ {NULL})),
                                      Fresh(IdsInUse), position, snapToGrid, gridSize,
                                      checkOverlap, objects).mesh)
    /\ lastOp' = [Op("addmesh", 0, FALSE, << >>) EXCEPT
                    !.arg = << position, snapToGrid, gridSize, checkOverlap >>]
    /\ UNCHANGED << selectedObject, hoveredObject, attached, gizmoVisible,
                    highlighted, isDragging, transformSnapshotTaken, undoStack,
                    redoStack, camera, snapEnabled, anims, reads, focus, session >>

(* a browser frame: every frame callback of requestRender that waits runs; *)
(* changed says that orbit.update() found the camera still moving          *)
Frame(changed) ==
    /\ Tick
    /\ render.scheduled > 0
    /\ render' = runCallbacks([render EXCEPT !.scheduled = 0, !.rendered = 0],
                              render.scheduled, changed)
    /\ lastOp' = Op("frame", 0, FALSE, << >>)
    /\ UNCHANGED << objects, selectedObject, hoveredObject, attached, gizmoVisible,
                    highlighted, isDragging, transformSnapshotTaken, undoStack,
                    redoStack, camera, snapEnabled, anims, reads, focus, session >>

Next ==
    \/ \E ray \in Rays : PointerMove(ray)
    \/ \E p \in Pointers : PointerDown(p.button, p.ray)
    \/ \E p \in Pointers, click \in BOOLEAN :
          (click \/ Len(p.ray) = 1) /\ PointerUp(p.button, click, p.ray)
    \/ DeselectCall
    \/ DragStart
    \/ \E kind \in {"pos", "rot", "scale"} :
          \E v \in GizmoValues(kind) : GizmoChange(kind, GizmoAxis(kind), v)
    \/ DragEnd
    \/ \E field \in Fields : \E text \in Texts(FieldKind(field)) : Input(field, text)
    \/ Blur
    \/ \E type \in OBJECT_TYPES : AddObject(type)
    \/ \E ref \in anims, last \in BOOLEAN : AnimFrame(ref, last)
    \/ DeleteSelected
    \/ \E confirmed \in BOOLEAN : ClearScene(confirmed)
    \/ \E doc \in ImportDocs : ImportChange(doc)
    \/ ReadLoad
    \/ ReadError
    \/ Undo
    \/ Redo
    \/ \E view \in Views : CameraMove(view)
    \/ SnapToggle

Spec == Init /\ [][Next]_vars

(***************************** the history bound *****************************)
(* Runs long enough to fill the history beyond its limit and to undo it    *)
(* empty again: the handlers that record a snapshot at every call, with    *)
(* undo and redo.                                                          *)
BoundEvents == 2 * limit + 4

InitBound == InitWith(BoundEvents)

NextBound ==
    \/ AddObject("box")
    \/ DeleteSelected
    \/ Undo
    \/ Redo

SpecBound == InitBound /\ [][NextBound]_vars

(***************************** placement *************************************)
(* Runs that place new meshes into scenes of zero, one or two boxes: the   *)
(* editor after one of the scene files below was imported (the import      *)
(* recorded the empty scene first) and the snap toggle was set either way, *)
(* followed by additions and snap toggles.                                 *)
PlaceEvents == 2

PlaceCap == MaxObjects + 1

\* where the boxes of a scene file stand, and their scales (1 and 10)
Spots == { << 0, 5, 0 >>, << 20, 5, 20 >>, << -20, 5, -20 >>, << 15, 5, 0 >> }

Sizes == { << 10, 10, 10 >>, << 100, 100, 100 >> }

SceneItem(id, position, scale) ==
    Item("box", id, Name("Box"), JVec(position), JVec(<< 0, 0, 0 >>), JVec(scale),
         JNum(DEFAULT_COLORS["box"]))

\* two boxes of scale 10 that leave, of the positions of the spiral around
\* the origin with step 0.5, only the last one free
Walled == << SceneItem(1, << 10, 5, 5 >>, << 100, 100, 100 >>),
             SceneItem(2, << -10, 5, -50 >>, << 100, 100, 100 >>) >>

Scenes ==
    { << >>, Walled }
    \cup { << SceneItem(1, p, s) >> : p \in Spots, s \in Sizes }
    \cup { << SceneItem(1, p[1], s[1]), SceneItem(2, p[2], s[2]) >> :
               p \in Spots \X Spots, s \in Sizes \X Sizes }

InitPlaceOf(scenes, events) ==
    \E items \in scenes, snap \in BOOLEAN :
        LET empty == serializeScene(<< >>, camera) IN
        /\ eventsLeft = events
        /\ objects = loadItems(items,
                               [objects |-> << >>, loadedCount |-> 0, skippedCount |-> 0,
                          aborted |-> FALSE],
                               {}, ItemIds(items)).objects
        /\ selectedObject = NULL
        /\ hoveredObject = NULL
        /\ attached = NULL
        /\ gizmoVisible = FALSE
        /\ highlighted = {}
        /\ isDragging = FALSE
        /\ transformSnapshotTaken = FALSE
        /\ camera = [position |-> << 180, 180, 180 >>, target |-> << 0, 0, 0 >>, fov |-> 50]
        /\ undoStack = << empty, empty >>
        /\ redoStack = << >>
        /\ snapEnabled = snap
        /\ anims = {}
        /\ reads = << >>
        /\ focus = "none"
        /\ render = Idle
        /\ session = [drag |-> 0, edit |-> 0, editing |-> FALSE]
        /\ lastOp = [name |-> "import", recorded |-> 0, loaded |-> TRUE,
                     calls |-> << >>, undoBefore |-> 2, redoBefore |-> 0,
                     selBefore |-> NULL, button |-> 0, ray |-> << >>,
                     notice |-> "", arg |-> << >>, result |-> NoResult,
                     run |-> [snaps |-> << empty, empty >>, undos |-> 0]]

InitPlace == InitPlaceOf(Scenes, PlaceEvents)

NextPlace ==
    \/ \E type \in OBJECT_TYPES : AddObjectUpTo(type, PlaceCap)
    \/ SnapToggle

SpecPlace == InitPlace /\ [][NextPlace]_vars

(***************************** numeric edits *********************************)
(* Runs that edit the transform of one box through the property panel: the *)
(* box is added and grows to its size, may be dragged with the gizmo, and   *)
(* every numeric field                                                     *)
(* takes texts that are in range, out of range or no number at all, with   *)
(* the snap toggle either way.                                             *)
EditEvents == 5

EditFields == { "pos-x", "pos-y", "pos-z", "rot-x", "rot-y", "rot-z",
                "scale-x", "scale-y", "scale-z" }

EditTexts(kind) == CASE kind = "pos" -> {"", "abc", "12abc", "-150", "20"}
                     [] kind = "rot" -> {"", "abc", "Infinity", "-30", "360", "450"}
                     [] OTHER -> {"", "abc", "NaN", "-50", "0", "20", "200"}

InitEdit == InitWith(EditEvents)

NextEdit ==
    \/ AddObjectUpTo("box", 1)
    \/ \E ref \in anims : AnimFrame(ref, TRUE)
    \/ DragStart
    \/ \E kind \in {"pos", "rot", "scale"} :
          \E v \in GizmoValues(kind) : GizmoChange(kind, GizmoAxis(kind), v)
    \/ \E field \in EditFields : \E text \in EditTexts(FieldKind(field)) :
          Input(field, text)
    \/ SnapToggle

SpecEdit == InitEdit /\ [][NextEdit]_vars

(***************************** imports ***************************************)
(* Runs that import scene files into an editor that may hold a box: every  *)
(* file of up to two records, each record being sound or broken in one of  *)
(* the ways below, with either kind of valid root and no camera block, and *)
(* the files of one box with each of the camera blocks, a file whose root  *)
(* is neither, a file that is no JSON and a file over the size limit.      *)
LoadEvents == 3

LoadRecords ==
    { \* a box with every field
      Item("box", 11, Name("Crate"), JVec(<< 10, 5, 0 >>), JVec(<< 0, 0, 0 >>),
           JVec(<< 10, 10, 10 >>), JNum(255)),
      \* a sphere without id, name and color, outside the workspace, with a
      \* fourth rotation component
      Item("sphere", NULL, NoName, JVec(<< 150, 5, 0 >>), JVec(<< 0, 90, 0, 7 >>),
           JVec(<< 10, 10, 10 >>), JBad),
      \* position: [1, 2]
      Item("box", 13, NoName, JVec(<< 1, 2 >>), JVec(<< 0, 0, 0 >>),
           JVec(<< 10, 10, 10 >>), JNum(255)),
      \* a type that is no object type
      Item("cone", 14, Name("Cone"), JVec(<< 0, 5, 0 >>), JVec(<< 0, 0, 0 >>),
           JVec(<< 10, 10, 10 >>), JNum(255)),
      \* a scale component that is no finite number
      Item("cylinder", 15, Name("Pipe"), JVec(<< 0, 5, 0 >>), JVec(<< 0, 0, 0 >>),
           JArray(<< JNum(10), JBad, JNum(10) >>), JNum(255)),
      \* a record that is no object (null, a number, a string)
      [Item("box", NULL, NoName, JNoArray, JNoArray, JNoArray, JBad)
          EXCEPT !.object = FALSE],
      \* a cylinder whose id is a number, without a name
      [Item("cylinder", 16, NoName, JVec(<< -10, 5, 0 >>), JVec(<< 0, 0, 0 >>),
            JVec(<< 10, 10, 10 >>), JNum(255)) EXCEPT !.idText = FALSE] }

\* camera blocks: every field valid; a target of two numbers; no field valid
\* (a fov of 180 is not below 180)
CameraBlocks ==
    { [present |-> TRUE, position |-> JVec(<< 50, 60, 70 >>),
       target |-> JVec(<< 10, 0, 10 >>), fov |-> JNum(60)],
      [present |-> TRUE, position |-> JVec(<< 50, 60, 70 >>),
       target |-> JVec(<< 10, 0 >>), fov |-> JNum(60)],
      [present |-> TRUE, position |-> JNoArray,
       target |-> JArray(<< JNum(10), JBad, JNum(10) >>), fov |-> JNum(180)] }

LoadDocs ==
    { [text |-> "ok", data |-> [root |-> root, objects |-> items, camera |-> NoCamera]] :
        root \in {"array", "object"},
        items \in { << >> } \cup { << r >> : r \in LoadRecords }
                            \cup { << r[1], r[2] >> : r \in LoadRecords \X LoadRecords } }
    \cup { [text |-> "ok",
            data |-> [root |-> "object", objects |-> << r >>, camera |-> c]] :
              r \in {x \in LoadRecords : x.id = 11}, c \in CameraBlocks }
    \cup { [text |-> t,
            data |-> [root |-> "other", objects |-> << >>, camera |-> NoCamera]] :
              t \in {"ok", "syntax", "large"} }

InitLoad == InitWith(LoadEvents)

NextLoad ==
    \/ AddObject("box")
    \/ \E doc \in LoadDocs : ImportChange(doc)
    \/ ReadLoad
    \/ ReadError

SpecLoad == InitLoad /\ [][NextLoad]_vars

(***************************** creation **************************************)
(* Runs that create a mesh with every option of createMesh in the scenes   *)
(* below: a requested position inside, on the edge of, outside and far     *)
(* outside the workspace or none, snap on and off, grid sizes below and at *)
(* the default and wider than the workspace,                               *)
(* with and without the overlap search.                                    *)
CreateEvents == 1

CreateScenes ==
    { << >>, Walled,
      << SceneItem(1, << 0, 5, 0 >>, << 10, 10, 10 >>) >>,
      << SceneItem(1, << 100, 5, -100 >>, << 100, 100, 100 >>) >>,
      << SceneItem(1, << 0, 5, 0 >>, << 10, 10, 10 >>),
         SceneItem(2, << 100, 0, 100 >>, << 10, 10, 10 >>) >> }

InitCreate == InitPlaceOf(CreateScenes, CreateEvents)

Requested == { NoPosition, Position(<< 0, 5, 0 >>), Position(<< 100, 0, -100 >>),
               Position(<< 96, 3, -104 >>), Position(<< -300, 250, 1000 >>),
               Position(<< 12, -20, 98 >>) }

GridSizes == { 5, 10, 250 }

NextCreate ==
    \E type \in OBJECT_TYPES, position \in Requested, snapToGrid \in BOOLEAN,
       gridSize \in GridSizes, checkOverlap \in BOOLEAN :
        AddMesh(type, position, snapToGrid, gridSize, checkOverlap, PlaceCap)

SpecCreate == InitCreate /\ [][NextCreate]_vars

(***************************** explicit selection ****************************)
(* Runs that call selectObject on a mesh of the registry with nothing      *)
(* selected, with a mesh hovered, with another mesh selected, and while a  *)
(* gizmo drag is in progress.                                              *)
SelectEvents == 4

InitSelect == InitWith(SelectEvents)

NextSelect ==
    \/ AddObject("box")
    \/ \E ray \in Rays : PointerMove(ray)
    \/ \E p \in Pointers : PointerDown(p.button, p.ray)
    \/ DragStart
    \/ \E ref \in Refs(objects) : SelectCall(ref)

SpecSelect == InitSelect /\ [][NextSelect]_vars

(***************************** creation animations ***************************)
(* Runs of additions, frames of the creation animations, undos and redos,  *)
(* with no edit of any scale.                                              *)
AnimEvents == 4

InitAnim == InitWith(AnimEvents)

NextAnim ==
    \/ AddObject("box")
    \/ \E ref \in anims, last \in BOOLEAN : AnimFrame(ref, last)
    \/ Undo
    \/ Redo

SpecAnim == InitAnim /\ [][NextAnim]_vars

(***************************** rendering *************************************)
(* Runs of handlers that request a render not at all, once, twice and four *)
(* times, with the browser frames that run the callbacks in between.       *)
RenderEvents == 4

InitRender == InitWith(RenderEvents)

NextRender ==
    \/ AddObject("box")
    \/ \E ray \in Rays : PointerMove(ray)
    \/ DragStart
    \/ DragEnd
    \/ SnapToggle
    \/ \E changed \in BOOLEAN : Frame(changed)

SpecRender == InitRender /\ [][NextRender]_vars

(***************************** properties ***********************************)
\* the entities of a registry: type, id, name, position, rotation, scale and
\* color of every mesh, in registry order
Entities(objs) == serializeScene(objs, camera).objects

\* every mesh of the registry is inside the workspace, the scale limits and
\* the rotation limits
WithinLimits ==
    \A k \in 1..Len(objects) : /\ validatePosition(objects[k].position)
                               /\ validateRotation(objects[k].rotation)
                               /\ validateScale(objects[k].scale)

\* C1: in every reachable state, record() followed at once by undo() leaves
\* the registry equal entity for entity (type, id, name, position, rotation,
\* scale, color), in the same order
C1_RecordUndoKeepsRegistry ==
    Entities(undo(record(Current)).objects) = Entities(objects)

\* C1 holds of the registries whose meshes are all within the limits
C1_WithinLimits == WithinLimits => C1_RecordUndoKeepsRegistry

\* C2: whenever the undo stack is not empty, undo() followed at once by
\* redo() brings back exactly the entities the registry held before the
\* undo, and both stacks have the lengths they had before it
C2_UndoRedoRestores ==
    undoStack # << >> =>
        LET h == redo(undo(Current))
        IN  /\ Entities(h.objects) = Entities(objects)
            /\ Len(h.undoStack) = Len(undoStack)
            /\ Len(h.redoStack) = Len(redoStack)

\* C2 holds of the registries whose meshes are all within the limits
C2_WithinLimits == WithinLimits => C2_UndoRedoRestores

\* C3: the undo stack never holds more than limit snapshots; once limit or
\* more consecutive record() calls have been made it holds exactly the last
\* limit snapshots recorded, less those the undos since have popped, so
\* that the oldest are dropped first; and after limit + 5 record() calls,
\* limit undos leave it empty with the 6th recorded snapshot loaded
C3_UndoStackBounded ==
    LET run == lastOp.run
        n   == Len(run.snaps)
    IN  /\ Len(undoStack) <= limit
        /\ (n >= limit /\ run.undos <= limit) =>
              undoStack = SubSeq(run.snaps, n - limit + 1, n - run.undos)
        /\ (n = limit + 5 /\ run.undos = limit /\ lastOp.name = "undo") =>
              /\ undoStack = << >>
              /\ camera = run.snaps[6].camera
              /\ Entities(objects) =
                   Entities(loadSceneData(SnapshotData(run.snaps[6]), Sel,
                                          camera).objects)

\* C3's case: limit + 5 record() calls in a row, then limit undos, the 6th
\* recorded snapshot differing from the 5th
C3_Witness ==
    /\ Len(lastOp.run.snaps) = limit + 5
    /\ lastOp.run.undos = limit
    /\ lastOp.name = "undo"
    /\ lastOp.run.snaps[6] # lastOp.run.snaps[5]

\* C4: after a record() the redo stack is empty, canRedo is false and a
\* redo() changes nothing; so it is after every handler that has recorded
C4_RecordEmptiesRedo ==
    /\ lastOp.recorded > 0 => redoStack = << >>
    /\ LET h == record(Current)
       IN  /\ h.redoStack = << >>
           /\ ~canRedo(h)
           /\ redo(h) = h

\* C4's case: a handler has recorded while the redo stack held a snapshot
C4_Witness ==
    /\ lastOp.recorded > 0
    /\ lastOp.redoBefore > 0
    /\ redoStack = << >>

\* C5: undo on an empty undo stack and redo on an empty redo stack change
\* neither the registry, the selection, the camera nor the stacks, and load
\* nothing
C5_EmptyStackNoOp ==
    [][((Undo /\ undoStack = << >>) \/ (Redo /\ redoStack = << >>)) =>
          /\ UNCHANGED << objects, selectedObject, hoveredObject, attached,
                          gizmoVisible, highlighted, camera, undoStack, redoStack >>
          /\ ~lastOp'.loaded
          /\ lastOp'.calls = << >>]_vars

\* C5's case: redo has run on an empty redo stack with a mesh selected
C5_Witness ==
    /\ lastOp.name = "redo"
    /\ lastOp.redoBefore = 0
    /\ selectedObject # NULL
    /\ objects # << >>

\* C6: after every undo or redo that has loaded a snapshot the selection is
\* none, also while a gizmo drag is in progress
C6_LoadClearsSelection ==
    (lastOp.name \in {"undo", "redo"} /\ lastOp.loaded) => selectedObject = NULL

\* C6 holds of the loads made while no drag is in progress
C6_NoDrag ==
    (lastOp.name \in {"undo", "redo"} /\ lastOp.loaded /\ ~isDragging)
        => selectedObject = NULL

\* C7: every gizmo drag in progress and every numeric edit session (first
\* input to blur) has pushed exactly one snapshot, and the snapshot-taken
\* flag is false whenever neither is in progress
C7_OneSnapshotPerAction ==
    /\ isDragging => session.drag = 1
    /\ session.editing => session.edit = 1
    /\ (~isDragging /\ ~session.editing) => ~transformSnapshotTaken

\* C8: a press or a click whose ray hits the selected mesh leaves the
\* selection as it is and calls nothing, whatever else the ray hits
C8_HitOnSelectedKeepsSelection ==
    [][\A p \in Pointers :
          (/\ selectedObject # NULL
           /\ selectedObject \in Hits(p.ray)
           /\ PointerDown(p.button, p.ray) \/ PointerUp(p.button, TRUE, p.ray))
          => /\ selectedObject' = selectedObject
             /\ attached' = attached
             /\ highlighted' = highlighted
             /\ lastOp'.calls = << >>]_vars

\* C8's case: a left press along a ray that hits another mesh first and the
\* selected mesh behind it
C8_Witness ==
    /\ lastOp.name = "pointerdown"
    /\ lastOp.button = 0
    /\ ~isDragging
    /\ Len(lastOp.ray) = 2
    /\ lastOp.selBefore # NULL
    /\ lastOp.ray[2] = lastOp.selBefore
    /\ lastOp.ray[1] \in Refs(objects)
    /\ selectedObject = lastOp.selBefore

\* the selection a press makes when its ray misses the selected mesh: the
\* nearest mesh of the registry on the ray, none when there is no such mesh
Picked(ray) == IF intersectObjects(ray) # << >> THEN Head(intersectObjects(ray))
               ELSE NULL

\* C9 as stated: while no drag is in progress, a press of any button whose
\* ray misses the selected mesh selects the registry mesh it hits, and
\* selects none when it hits nothing
C9_AnyButtonPressSelects ==
    [][\A p \in Pointers :
          (/\ ~isDragging
           /\ ~(selectedObject # NULL /\ selectedObject \in Hits(p.ray))
           /\ PointerDown(p.button, p.ray))
          => selectedObject' = Picked(p.ray)]_vars

\* C9: while no drag is in progress, a press of the left button whose ray
\* misses the selected mesh selects the registry mesh it hits, and selects
\* none when it hits nothing
C9_LeftPressSelects ==
    [][\A p \in Pointers :
          (/\ ~isDragging
           /\ p.button = 0
           /\ ~(selectedObject # NULL /\ selectedObject \in Hits(p.ray))
           /\ PointerDown(p.button, p.ray))
          => /\ selectedObject' = Picked(p.ray)
             /\ attached' = Picked(p.ray)]_vars

\* C9's case: a left press has moved the selection from one mesh to another
C9_Witness ==
    /\ lastOp.name = "pointerdown"
    /\ lastOp.button = 0
    /\ lastOp.selBefore # NULL
    /\ lastOp.selBefore \notin Hits(lastOp.ray)
    /\ lastOp.ray # << >>
    /\ selectedObject = Head(lastOp.ray)
    /\ selectedObject # lastOp.selBefore

\* C10: deselect() during a gizmo drag changes neither the selection, the
\* gizmo's attachment nor the highlight and does not call the selection
\* callback; with no drag in progress it leaves the selection none
C10_DeselectGuardedByDrag ==
    [][DeselectCall =>
          IF isDragging
          THEN /\ UNCHANGED << selectedObject, attached, gizmoVisible, highlighted >>
               /\ lastOp'.calls = << >>
          ELSE /\ selectedObject' = NULL
               /\ attached' = NULL]_vars

\* C10's case: deselect() has been called during a drag of the selected mesh
C10_Witness ==
    /\ lastOp.name = "deselect"
    /\ isDragging
    /\ selectedObject # NULL
    /\ attached = selectedObject

\* C11: in every reachable state the hovered mesh is none or is not the
\* selected mesh
C11_HoverIsNotSelected ==
    hoveredObject = NULL \/ hoveredObject # selectedObject

\* C11's case: the pointer has moved onto the selected mesh
C11_Witness ==
    /\ lastOp.name = "pointermove"
    /\ selectedObject # NULL
    /\ lastOp.ray # << >>
    /\ Head(lastOp.ray) = selectedObject

\* C12: in every reachable state every mesh of the registry has its scale
\* components within SCALE_LIMITS, its position inside WORKSPACE_BOUNDS and
\* its rotation components, in degrees, in [0, 360)
C12_TransformsWithinLimits ==
    \A k \in 1..Len(objects) :
        /\ validateScale(objects[k].scale)
        /\ validatePosition(objects[k].position)
        /\ \A i \in 1..3 : objects[k].rotation[i] >= 0 /\ objects[k].rotation[i] < 360

\* every step but a gizmo change keeps the registry within the limits
C12_OnlyGizmoLeavesLimits ==
    [][(/\ C12_TransformsWithinLimits
        /\ ~ \E kind \in {"pos", "rot", "scale"} : \E v \in GizmoValues(kind) :
                GizmoChange(kind, GizmoAxis(kind), v))
       => C12_TransformsWithinLimits']_vars

\* C13: in every reachable state no two meshes of the registry have the
\* same id
C13_IdsUnique ==
    \A j, k \in 1..Len(objects) : objects[j].id = objects[k].id => j = k

\* some id occurs twice in a list of meshes or of snapshot records
RepeatsId(objs) == \E j, k \in 1..Len(objs) : j # k /\ objs[j].id = objs[k].id

\* ids repeat only after the load of an imported document that repeats them,
\* or after undo or redo has reloaded a snapshot taken of such a registry
C13_OnlyImportRepeatsIds ==
    [][(/\ C13_IdsUnique
        /\ ~ReadLoad
        /\ \A k \in 1..Len(undoStack) : ~RepeatsId(undoStack[k].objects)
        /\ \A k \in 1..Len(redoStack) : ~RepeatsId(redoStack[k].objects))
       => C13_IdsUnique']_vars

\* C14: adding a mesh of any type with the default options (snap off, grid
\* size 1, overlap check on) to an empty registry leaves exactly one mesh, at
\* (0, 0.5, 0); adding a box when the registry holds one box at (0, 0.5, 0)
\* puts the new box somewhere else
C14_DefaultPlacement ==
    [][\A type \in OBJECT_TYPES :
         AddObjectUpTo(type, PlaceCap) =>
            /\ (objects = << >> /\ ~snapEnabled)
                  => (Len(objects') = 1 /\ objects'[1].position = << 0, 5, 0 >>)
            /\ (/\ type = "box" /\ Len(objects) = 1
                /\ objects[1].type = "box" /\ objects[1].position = << 0, 5, 0 >>)
                  => (Len(objects') = 2 /\ objects'[2].position # << 0, 5, 0 >>)]_vars

\* C14's case: a box was added to the empty registry and a second box after it
C14_Witness ==
    /\ lastOp.name = "add" /\ ~snapEnabled
    /\ Len(objects) = 2
    /\ objects[1].type = "box" /\ objects[1].scale = << 1, 1, 1 >>
    /\ objects[1].position = << 0, 5, 0 >>
    /\ objects[2].type = "box" /\ objects[2].position = << 10, 5, 0 >>

\* the position createMesh hands to the placement search
Anchor(type) ==
    createMesh(type, 0, 0, snapEnabled, snapConfig.translate, FALSE, << >>).mesh.position

\* the step of the search: the grid size with snap on, 0.5 otherwise
SearchStep == IF snapEnabled THEN snapConfig.translate ELSE 5

\* the position the search tests in its a-th round
Tested(targetPos, a, gridSize) ==
    IF a = 0 THEN targetPos ELSE spiralShift(targetPos, a - 1, gridSize)

\* every round of the search met an overlap
Exhausted(targetPos, object, existingObjects, gridSize) ==
    \A a \in 0..(maxAttempts - 1) :
        hasOverlap([object EXCEPT !.position = Tested(targetPos, a, gridSize)],
                   existingObjects)

\* the mesh an addition has just put last in the registry, as it was placed
\* (at scale 1, before the creation animation shrank it)
Newest(objs) == [objs[Len(objs)] EXCEPT !.scale = << 10, 10, 10 >>]

\* C15: when a mesh is added to a registry that is not empty, its box at the
\* position it gets intersects the box of no existing mesh unless every round
\* of the search met an overlap, and it gets the anchor whenever its box at the
\* anchor intersects no existing box
C15_PlacementAvoidsOverlap ==
    [][\A type \in OBJECT_TYPES :
         (AddObjectUpTo(type, PlaceCap) /\ objects # << >>) =>
            LET new == Newest(objects') IN
            /\ ~Exhausted(Anchor(type), new, objects, SearchStep)
                  => ~hasOverlap(new, objects)
            /\ ~hasOverlap([new EXCEPT !.position = Anchor(type)], objects)
                  => new.position = Anchor(type)]_vars

\* C15's case: the last mesh was added next to others, away from its anchor,
\* and intersects none of them
C15_Witness ==
    /\ lastOp.name = "add" /\ lastOp.notice = "adjusted"
    /\ Len(objects) = 3
    /\ ~hasOverlap(Newest(objects), SubSeq(objects, 1, 2))

\* C16: when every round of the search met an overlap, the new mesh gets the
\* anchor and the addition shows the position-adjusted notification
C16_ExhaustedIsFlagged ==
    [][\A type \in OBJECT_TYPES :
         (/\ AddObjectUpTo(type, PlaceCap) /\ objects # << >>
          /\ Exhausted(Anchor(type), Newest(objects'), objects, SearchStep))
            => /\ Newest(objects').position = Anchor(type)
               /\ lastOp'.notice = "adjusted"]_vars

\* when every round of the search met an overlap, the new mesh gets the anchor
\* and the addition shows no notification
C16_ExhaustedIsSilent ==
    [][\A type \in OBJECT_TYPES :
         (/\ AddObjectUpTo(type, PlaceCap) /\ objects # << >>
          /\ Exhausted(Anchor(type), Newest(objects'), objects, SearchStep))
            => /\ Newest(objects').position = Anchor(type)
               /\ lastOp'.notice = ""]_vars

\* a mesh was added at its anchor, on top of others, without a notification
C16_Overlapping ==
    /\ lastOp.name = "add" /\ lastOp.notice = ""
    /\ Len(objects) = 3
    /\ hasOverlap(Newest(objects), SubSeq(objects, 1, 2))

\* the selected mesh in a registry
Edited(objs) == objs[IndexOf(objs, selectedObject)]

\* C17: after an edit of a scale field of the selected mesh, whatever the
\* mesh, the axis and the value, every scale component is within
\* [SCALE_LIMITS.min, SCALE_LIMITS.max]; a value below the range leaves the
\* edited axis at SCALE_LIMITS.min and a value above it at SCALE_LIMITS.max
C17_ScaleClamped ==
    [][\A field \in EditFields : \A text \in EditTexts(FieldKind(field)) :
         (/\ FieldKind(field) = "scale" /\ Input(field, text)
          /\ selectedObject \in Refs(objects)) =>
            LET v     == InputValue("scale", text)
                i     == AxisIndex(FieldAxis(field))
                after == Edited(objects').scale
            IN  /\ validateScale(after)
                /\ (IsFinite(v) /\ v.num < SCALE_LIMITS.min) => after[i] = SCALE_LIMITS.min
                /\ (IsFinite(v) /\ v.num > SCALE_LIMITS.max) => after[i] = SCALE_LIMITS.max]_vars

\* C17's case: -5 was typed into the x scale of a box of scale 1
C17_Witness ==
    /\ lastOp.name = "input" /\ lastOp.arg = << "scale-x", "-50" >>
    /\ selectedObject \in Refs(objects)
    /\ Edited(objects).scale = << SCALE_LIMITS.min, 10, 10 >>

\* d modulo 360, taken in [0, 360)
Mod360(d) == CHOOSE r \in 0..359 : \E q \in -10..10 : d = 360 * q + r

Component(mesh, field) ==
    LET i == AxisIndex(FieldAxis(field))
    IN  CASE FieldKind(field) = "pos" -> mesh.position[i]
          [] FieldKind(field) = "rot" -> mesh.rotation[i]
          [] OTHER -> mesh.scale[i]

\* the component is inside the limits of its kind
ComponentWithinLimits(mesh, field) ==
    LET i == AxisIndex(FieldAxis(field))
    IN  CASE FieldKind(field) = "pos" ->
               mesh.position[i] = clampPosition(mesh.position)[i]
          [] FieldKind(field) = "rot" -> mesh.rotation[i] = clampDeg(mesh.rotation[i])
          [] OTHER -> mesh.scale[i] = clampScale(mesh.scale)[i]

\* C19: an edit of a position, rotation or scale field of the selected mesh
\* with a value that is no finite number (empty or non-numeric text, NaN,
\* Infinity) leaves the edited axis at the value it had
C19_MalformedKeepsAxis ==
    [][\A field \in EditFields : \A text \in EditTexts(FieldKind(field)) :
         (/\ Input(field, text) /\ selectedObject \in Refs(objects)
          /\ ~IsFinite(InputValue(FieldKind(field), text)))
            => Component(Edited(objects'), field) = Component(Edited(objects), field)]_vars

\* the same for an axis that was inside its limits before the edit
C19_MalformedKeepsAxisWithinLimits ==
    [][\A field \in EditFields : \A text \in EditTexts(FieldKind(field)) :
         (/\ Input(field, text) /\ selectedObject \in Refs(objects)
          /\ ~IsFinite(InputValue(FieldKind(field), text))
          /\ ComponentWithinLimits(Edited(objects), field))
            => Component(Edited(objects'), field) = Component(Edited(objects), field)]_vars

\* a text that is no number was typed into the field of an axis a gizmo drag
\* had left outside its limits
C19_AfterDrag ==
    /\ lastOp.name = "input" /\ lastOp.arg \in {<< "pos-x", "abc" >>, << "scale-z", "" >>}
    /\ selectedObject \in Refs(objects)
    /\ isDragging

\* the records of a document that pass validateItem, in document order
ValidRecords(items) == SelectSeq(items, validateItem)

\* the registry holds one mesh for each of the records, in their order, of
\* the record's type and at the record's position brought into the workspace
LoadedFrom(objs, records) ==
    /\ Len(objs) = Len(records)
    /\ \A k \in 1..Len(records) :
          /\ objs[k].type = records[k].type
          /\ objs[k].position = clampPosition(Nums(records[k].position))

\* C20: the import of a document with a valid root returns loadedCount, the
\* number of records that pass validation, and skippedCount, the number of
\* the others, and leaves exactly the valid records in the registry
C20_LoadsExactlyValid ==
    [][(/\ ReadLoad /\ reads # << >>
        /\ Head(reads).text = "ok" /\ ValidRoot(Head(reads).data)) =>
          LET items == Head(reads).data.objects
              valid == ValidRecords(items)
          IN  /\ lastOp'.result = [returned |-> TRUE, loadedCount |-> Len(valid),
                                   skippedCount |-> Len(items) - Len(valid)]
              /\ LoadedFrom(objects', valid)]_vars

\* the same for the documents none of whose valid records makes the default
\* name throw
C20_LoadsExactlyValidUnlessThrown ==
    [][(/\ ReadLoad /\ reads # << >>
        /\ Head(reads).text = "ok" /\ ValidRoot(Head(reads).data)
        /\ \A k \in 1..Len(Head(reads).data.objects) :
              ~nameThrows(Head(reads).data.objects[k])) =>
          LET items == Head(reads).data.objects
              valid == ValidRecords(items)
          IN  /\ lastOp'.result = [returned |-> TRUE, loadedCount |-> Len(valid),
                                   skippedCount |-> Len(items) - Len(valid)]
              /\ LoadedFrom(objects', valid)]_vars

\* one valid box and one record with position [1, 2] were imported:
\* loadedCount is 1 and skippedCount is 1
C20_OneLoadedOneSkipped ==
    /\ lastOp.name = "import"
    /\ lastOp.result = [returned |-> TRUE, loadedCount |-> 1, skippedCount |-> 1]
    /\ Len(objects) = 1 /\ objects[1].type = "box" /\ objects[1].id = 11

\* an import ended part-way: the registry holds the records before the one
\* that threw and importScene returned nothing
C20_Aborted ==
    /\ lastOp.name = "importaborted" /\ ~lastOp.result.returned
    /\ Len(objects) = 1

\* C21: the import of a document with a valid root runs to completion
\* whatever its records are: importScene returns the counts, every record is
\* counted as loaded or as skipped, and every valid record is in the registry
C21_LoadCompletes ==
    [][(/\ ReadLoad /\ reads # << >>
        /\ Head(reads).text = "ok" /\ ValidRoot(Head(reads).data)) =>
          LET items == Head(reads).data.objects IN
          /\ lastOp'.name = "import" /\ lastOp'.result.returned
          /\ lastOp'.result.loadedCount + lastOp'.result.skippedCount = Len(items)
          /\ Len(objects') = Len(ValidRecords(items))]_vars

\* the import runs to completion unless a valid record has an id that is no
\* string and no name; it then ends at that record
C21_AbortsOnlyOnName ==
    [][(/\ ReadLoad /\ reads # << >>
        /\ Head(reads).text = "ok" /\ ValidRoot(Head(reads).data)) =>
          LET items == Head(reads).data.objects
              thrown == \E k \in 1..Len(items) :
                           validateItem(items[k]) /\ nameThrows(items[k])
          IN  /\ lastOp'.name = IF thrown THEN "importaborted" ELSE "import"
              /\ thrown => Len(objects') < Len(ValidRecords(items))]_vars

\* an import that was aborted after it had loaded the valid box before the
\* record that threw
C21_AbortedPartWay ==
    /\ lastOp.name = "importaborted"
    /\ Len(objects) = 1 /\ objects[1].id = 11

\* C22: after the import of a document with a valid root the registry holds
\* one mesh for each record that passes validation, in document order, and
\* nothing else, and no mesh is selected
C22_LoadReplacesRegistry ==
    [][(/\ ReadLoad /\ reads # << >>
        /\ Head(reads).text = "ok" /\ ValidRoot(Head(reads).data)) =>
          /\ LoadedFrom(objects', ValidRecords(Head(reads).data.objects))
          /\ selectedObject' = NULL]_vars

\* the same for the imports that complete while no gizmo drag is in progress
C22_UnlessDraggedOrThrown ==
    [][(/\ ReadLoad /\ reads # << >>
        /\ Head(reads).text = "ok" /\ ValidRoot(Head(reads).data)
        /\ ~isDragging
        /\ \A k \in 1..Len(Head(reads).data.objects) :
              ~nameThrows(Head(reads).data.objects[k])) =>
          /\ LoadedFrom(objects', ValidRecords(Head(reads).data.objects))
          /\ selectedObject' = NULL]_vars

\* an import has replaced the registry during a drag and the mesh that was
\* selected, no longer in the registry, is selected still
C22_StaleSelection ==
    /\ lastOp.name = "import" /\ isDragging
    /\ selectedObject # NULL /\ selectedObject \notin Refs(objects)

\* type, id, position, rotation, scale and color of every mesh, in registry
\* order
Core(objs) ==
    [k \in 1..Len(objs) |->
        [type |-> objs[k].type, id |-> objs[k].id, position |-> objs[k].position,
         rotation |-> objs[k].rotation, scale |-> objs[k].scale,
         color |-> objs[k].color]]

\* C23: in every reachable state, loading what serializeScene returns for the
\* registry gives as many meshes in the same order, each with the type, id,
\* position, rotation, scale and color it had
C23_RoundTripKeepsEntities ==
    Core(loadSceneData(SnapshotData(serializeScene(objects, camera)), Sel,
                       camera).objects) = Core(objects)

\* the same for the registries whose meshes are all inside the limits
C23_RoundTripWithinLimits ==
    WithinLimits => C23_RoundTripKeepsEntities

\* C24: the import of a document with a valid root restores the camera and
\* returns cameraRestored true when the document has a camera block whose
\* position, target and fov are all valid; in every other case it leaves the
\* camera's position, target and fov as they were and returns cameraRestored
\* false
C24_CameraAllOrNothing ==
    [][(/\ ReadLoad /\ reads # << >>
        /\ Head(reads).text = "ok" /\ ValidRoot(Head(reads).data)) =>
          LET c == Head(reads).data.camera
              L == loadSceneData(Head(reads).data, Sel, camera)
              allValid == /\ c.present
                          /\ isValidNumberArray(c.position, 3)
                          /\ isValidNumberArray(c.target, 3)
                          /\ IsFinite(c.fov) /\ c.fov.num > 0 /\ c.fov.num < 180
          IN  IF allValid
              THEN /\ L.cameraRestored
                   /\ camera' = [position |-> Nums(c.position),
                                 target |-> Nums(c.target), fov |-> c.fov.num]
              ELSE /\ ~L.cameraRestored
                   /\ camera' = camera]_vars

\* what the import does: cameraRestored is true whenever the document has a
\* camera block, and each field of the block that is valid is restored while
\* the others are left as they were
C24_CameraFieldByField ==
    [][(/\ ReadLoad /\ reads # << >>
        /\ Head(reads).text = "ok" /\ ValidRoot(Head(reads).data)
        /\ lastOp'.name = "import") =>
          LET c == Head(reads).data.camera
              L == loadSceneData(Head(reads).data, Sel, camera)
          IN  /\ L.cameraRestored = c.present
              /\ camera'.position = IF c.present /\ isValidNumberArray(c.position, 3)
                                    THEN Nums(c.position) ELSE camera.position
              /\ camera'.target = IF c.present /\ isValidNumberArray(c.target, 3)
                                  THEN Nums(c.target) ELSE camera.target
              /\ camera'.fov = IF /\ c.present /\ IsFinite(c.fov)
                                  /\ c.fov.num > 0 /\ c.fov.num < 180
                               THEN c.fov.num ELSE camera.fov]_vars

\* a camera block with an invalid target was imported: position and fov were
\* restored, the target was not
C24_PartlyRestored ==
    /\ lastOp.name = "import"
    /\ camera = [position |-> << 50, 60, 70 >>, target |-> << 0, 0, 0 >>, fov |-> 60]

C26_FailedReadRestoresState ==
    [][/\ (lastOp'.name = "importchange" \/ lastOp'.name = "readerror") =>
            /\ objects' = objects
            /\ UNCHANGED << selectedObject, hoveredObject, attached, gizmoVisible,
                            highlighted >>
       /\ (ReadError /\ lastOp.name = "importchange") =>
            /\ Len(undoStack') = lastOp.undoBefore
            /\ Len(redoStack') = lastOp.redoBefore]_vars

\* the registry and the selection are as they were, but the snapshot the
\* request recorded stays on the undo stack and the redo stack stays empty
C26_FailedReadKeepsRecord ==
    [][/\ (lastOp'.name = "importchange" \/ lastOp'.name = "readerror") =>
            /\ objects' = objects
            /\ UNCHANGED << selectedObject, hoveredObject, attached, gizmoVisible,
                            highlighted >>
       /\ (ReadError /\ lastOp.name = "importchange") =>
            /\ undoStack' = undoStack /\ undoStack # << >>
            /\ Top(undoStack') = serializeScene(objects', camera')
            /\ redoStack' = << >>]_vars

\* a file read has failed and the undo stack is longer than it was before
\* the request
C26_PhantomSnapshot ==
    /\ lastOp.name = "readerror"
    /\ Len(undoStack) = 2 /\ undoStack[1] = undoStack[2]

(* C27: whatever number of requestRender() calls is made between two frame *)
(* callbacks, at most one frame callback waits and a frame renders at most *)
(* once; the flag is set exactly while a callback waits, a call made while *)
(* it is set changes nothing, and the callback clears it before anything   *)
(* it does requests the next frame.                                        *)
C27_OneFramePerBurst ==
    /\ [](/\ render.scheduled <= 1
          /\ render.rendered <= 1
          /\ render.renderPending <=> render.scheduled = 1)
    /\ [][(render.renderPending /\ lastOp'.name # "frame") => render' = render]_vars
    /\ [][lastOp'.name = "frame" =>
             /\ render.scheduled = 1 /\ render'.rendered = 1
             /\ render'.renderPending <=> render'.scheduled = 1]_vars

\* a frame has rendered, and of the four calls of one addition one callback waits
C27_Witness ==
    /\ lastOp.name = "add"
    /\ render = [renderPending |-> TRUE, scheduled |-> 1, rendered |-> 1]

\* the records a load that got past the root check was given: the document
\* of an import, the snapshot an undo or a redo popped
LoadedItems(name) ==
    CASE name = "undo" -> SnapshotData(Top(undoStack)).objects
      [] name = "redo" -> SnapshotData(Top(redoStack)).objects
      [] OTHER -> Head(reads).data.objects

(* C28: a load replaces the registry as a whole: once it is past the root  *)
(* check, whoever looks at the registry after it, whether it returned or   *)
(* threw, finds in it one mesh for every valid record of the snapshot, in  *)
(* their order, and nothing else: never a part of them, never a mesh of    *)
(* the registry before.                                                    *)
C28_LoadIsAtomic ==
    [][lastOp'.loaded =>
          LoadedFrom(objects', ValidRecords(LoadedItems(lastOp'.name)))]_vars

\* the same for the loads that return
C28_AtomicUnlessThrown ==
    [][(lastOp'.loaded /\ lastOp'.name # "importaborted") =>
          LoadedFrom(objects', ValidRecords(LoadedItems(lastOp'.name)))]_vars

\* a load threw at its second record: the old meshes are gone and of the two
\* valid records of the document one is in the registry
C28_PartOfSnapshot ==
    /\ lastOp.name = "importaborted" /\ lastOp.loaded
    /\ lastOp.notice = "failed"
    /\ Len(objects) = 1 /\ objects[1].type = "box"

(* what a step may do to a stack of snapshots without changing a snapshot  *)
(* that stays on it: nothing, pop the newest, drop them all, or push the   *)
(* snapshot of the scene as it is, dropping the oldest beyond limit         *)
StackKept(old, new) ==
    \/ new = old
    \/ old # << >> /\ new = Pop(old)
    \/ new = << >>
    \/ /\ new # << >>
       /\ Top(new) = serializeScene(objects, camera)
       /\ \/ Pop(new) = old
          \/ Len(old) = limit /\ Pop(new) = Tail(old)

FreeCandidates(targetPos, object, existingObjects, gridSize, last) ==
    { k \in 0..last :
        ~hasOverlap([object EXCEPT !.position = spiralShift(targetPos, k, gridSize)],
                    existingObjects) }

Least(S) == CHOOSE k \in S : \A j \in S : k <= j

(* C30: when the new mesh overlaps an existing one at its anchor, it gets   *)
(* the first of the spiral positions for k = 0..49 at which it intersects  *)
(* no existing mesh, the one for k = 49 when no earlier one is free.       *)
C30_SearchCoversAllCandidates ==
    [][\A type \in OBJECT_TYPES :
         (/\ AddObjectUpTo(type, PlaceCap) /\ objects # << >>
          /\ hasOverlap([Newest(objects') EXCEPT !.position = Anchor(type)], objects)) =>
            LET free == FreeCandidates(Anchor(type), Newest(objects'), objects,
                                       SearchStep, maxAttempts - 1)
            IN  free # {} =>
                  Newest(objects').position =
                     spiralShift(Anchor(type), Least(free), SearchStep)]_vars

\* the same for k = 0..48, the positions the loop tests before it gives up
C30_SearchCoversTestedCandidates ==
    [][\A type \in OBJECT_TYPES :
         (/\ AddObjectUpTo(type, PlaceCap) /\ objects # << >>
          /\ hasOverlap([Newest(objects') EXCEPT !.position = Anchor(type)], objects)) =>
            LET free == FreeCandidates(Anchor(type), Newest(objects'), objects,
                                       SearchStep, maxAttempts - 2)
            IN  free # {} =>
                  Newest(objects').position =
                     spiralShift(Anchor(type), Least(free), SearchStep)]_vars

\* a box was added between the two walls: only the position for k = 49 is
\* free, and the box stands at its anchor, inside a wall
C30_LastCandidateSkipped ==
    /\ lastOp.name = "add" /\ Len(objects) = 3
    /\ objects[3].type = "box" /\ objects[3].position = << 0, 5, 0 >>
    /\ FreeCandidates(<< 0, 5, 0 >>, Newest(objects), SubSeq(objects, 1, 2), 5,
                      maxAttempts - 1) = { maxAttempts - 1 }

(* C31: the position createMesh gives a new mesh is within the workspace   *)
(* bounds on all three axes, whatever position was requested, with snap on *)
(* or off, for every grid size, with or without the overlap search and     *)
(* whether or not the search moved the mesh.                               *)
C31_CreatedWithinBounds ==
    [][lastOp'.name = "addmesh" => validatePosition(Newest(objects').position)]_vars

\* a mesh requested outside the workspace with snap on was moved by the
\* overlap search and stands within the bounds, away from where the request
\* was clamped to
C31_Witness ==
    /\ lastOp.name = "addmesh"
    /\ lastOp.arg[1].given /\ ~validatePosition(lastOp.arg[1].at)
    /\ lastOp.arg[2] /\ lastOp.arg[4]
    /\ Len(objects) > 1
    /\ validatePosition(Newest(objects).position)
    /\ Newest(objects).position #
          clampPosition(<< RoundTo(lastOp.arg[1].at[1], lastOp.arg[3]),
                           Max(RoundTo(lastOp.arg[1].at[2], lastOp.arg[3]),
                               lastOp.arg[3] \div 2),
                           RoundTo(lastOp.arg[1].at[3], lastOp.arg[3]) >>)

(* C32: a pointer move while no drag is in progress makes the first mesh   *)
(* the ray hits the hovered mesh when that mesh is not the selected one,   *)
(* and leaves no mesh hovered in every other case: the ray hits nothing,   *)
(* or it hits the selected mesh first.                                     *)
C32_MoveSetsOrClearsHover ==
    [][(lastOp'.name = "pointermove" /\ ~isDragging) =>
          LET hits == intersectObjects(lastOp'.ray) IN
          hoveredObject' = IF hits # << >> /\ Head(hits) # selectedObject
                           THEN Head(hits) ELSE NULL]_vars

\* the same with the hovered mesh left as it is when the ray hits the
\* selected mesh first
C32_MoveOntoSelectedKeepsHover ==
    [][(lastOp'.name = "pointermove" /\ ~isDragging) =>
          LET hits == intersectObjects(lastOp'.ray) IN
          hoveredObject' = IF hits = << >> THEN NULL
                           ELSE IF Head(hits) # selectedObject THEN Head(hits)
                           ELSE hoveredObject]_vars

\* the pointer has moved from a hovered mesh onto the selected mesh, and the
\* other mesh is hovered still
C32_HoverLeftBehind ==
    /\ lastOp.name = "pointermove" /\ ~isDragging
    /\ lastOp.ray # << >> /\ Head(lastOp.ray) = selectedObject
    /\ selectedObject \in Refs(objects)
    /\ hoveredObject # NULL /\ hoveredObject # selectedObject

C34_PointerIdleWhileDragging ==
    [][(/\ isDragging
        /\ lastOp'.name \in {"pointermove", "pointerdown", "pointerup", "click"}) =>
          /\ selectedObject' = selectedObject
          /\ hoveredObject' = hoveredObject
          /\ attached' = attached
          /\ lastOp'.calls = << >>]_vars

\* during a drag the pointer has moved onto a mesh that is neither selected
\* nor hovered
C34_Witness ==
    /\ isDragging /\ lastOp.name = "pointermove"
    /\ intersectObjects(lastOp.ray) # << >>
    /\ Head(intersectObjects(lastOp.ray)) \notin {selectedObject, hoveredObject}

(* C35: in every reachable state the undo stack and the redo stack hold    *)
(* together at most limit snapshots, so that an undo, which pushes on the  *)
(* redo stack, never makes that stack drop a snapshot.                     *)
C35_StacksShareTheLimit ==
    /\ [](Len(undoStack) + Len(redoStack) <= limit)
    /\ [][(lastOp'.name = "undo" /\ lastOp'.loaded) =>
             /\ Len(redoStack') = Len(redoStack) + 1
             /\ SubSeq(redoStack', 1, Len(redoStack)) = redoStack]_vars

\* the undo stack was full and limit undos have moved every snapshot's
\* place to the redo stack
C35_Witness ==
    /\ lastOp.name = "undo"
    /\ undoStack = << >>
    /\ Len(redoStack) = limit

(* C36: in every reachable state, whatever additions, selections,          *)
(* deletions, clears, imports, undos and redos were made and wherever the  *)
(* drags began and ended among them, the selected mesh is none or is in    *)
(* the registry.                                                           *)
C36_SelectionInRegistry ==
    selectedObject = NULL \/ selectedObject \in Refs(objects)

\* no step taken while no drag is in progress takes the selected mesh out
\* of the registry
C36_KeptOutsideDrags ==
    [][(~isDragging /\ C36_SelectionInRegistry) =>
          (selectedObject' = NULL \/ selectedObject' \in Refs(objects'))]_vars

\* the selected mesh was deleted during a drag and is selected still
C36_DeletedStillSelected ==
    /\ lastOp.name = "delete" /\ lastOp.recorded = 1
    /\ isDragging
    /\ selectedObject # NULL /\ selectedObject \notin Refs(objects)
    /\ selectedObject = lastOp.selBefore

(* C37: in every reachable state the gizmo is attached to a mesh exactly   *)
(* when a mesh is selected, and then to the selected mesh; it is detached  *)
(* and hidden exactly when nothing is selected.                            *)
C37_GizmoFollowsSelection ==
    /\ attached = selectedObject
    /\ gizmoVisible <=> selectedObject # NULL

\* no step taken while no drag is in progress parts the gizmo from the
\* selection
C37_KeptOutsideDrags ==
    [][(~isDragging /\ C37_GizmoFollowsSelection) =>
          /\ attached' = selectedObject'
          /\ gizmoVisible' <=> selectedObject' # NULL]_vars

\* the selected mesh was deleted during a drag: the gizmo is detached and
\* the mesh is selected still
C37_DetachedButSelected ==
    /\ lastOp.name = "delete" /\ lastOp.recorded = 1
    /\ attached = NULL /\ ~gizmoVisible
    /\ selectedObject # NULL

\* the edit of a field changed nothing of the registry but the component the
\* field shows: not the other axes of that vector, not the other two vectors
\* of the mesh, nothing of any other mesh
OnlyComponentChanged(old, new, field) ==
    /\ Len(new) = Len(old)
    /\ \A k \in 1..Len(old) :
          IF old[k].ref # selectedObject THEN new[k] = old[k]
          ELSE LET i == AxisIndex(FieldAxis(field))
                   kind == FieldKind(field)
               IN  /\ [new[k] EXCEPT !.position = old[k].position,
                                     !.rotation = old[k].rotation,
                                     !.scale = old[k].scale] = old[k]
                   /\ \A j \in 1..3 :
                         /\ (kind # "pos" \/ j # i) => new[k].position[j] = old[k].position[j]
                         /\ (kind # "rot" \/ j # i) => new[k].rotation[j] = old[k].rotation[j]
                         /\ (kind # "scale" \/ j # i) => new[k].scale[j] = old[k].scale[j]

(* C38: an edit of one axis of the position, the rotation or the scale of  *)
(* the selected mesh leaves the other two axes of that vector, the other   *)
(* two vectors of the mesh and every other mesh as they were, in every     *)
(* state that numeric edits and gizmo drags lead to.                       *)
C38_EditTouchesOneAxis ==
    [][(lastOp'.name = "input" /\ selectedObject \in Refs(objects)) =>
          OnlyComponentChanged(objects, objects', lastOp'.arg[1])]_vars

\* the same for the edits of a mesh whose position, rotation and scale are
\* inside their limits
C38_EditWithinLimitsTouchesOneAxis ==
    [][(/\ lastOp'.name = "input" /\ selectedObject \in Refs(objects)
        /\ validatePosition(Edited(objects).position)
        /\ validateRotation(Edited(objects).rotation)
        /\ validateScale(Edited(objects).scale)) =>
          OnlyComponentChanged(objects, objects', lastOp'.arg[1])]_vars

\* the Y position of a mesh was edited after a drag had left it outside the
\* workspace on X: the mesh is back inside on X
C38_OtherAxisMoved ==
    /\ lastOp.name = "input" /\ lastOp.arg = << "pos-y", "20" >>
    /\ isDragging
    /\ selectedObject \in Refs(objects)
    /\ Edited(objects).position = << WORKSPACE_BOUNDS.minX, 20, 0 >>

(* C39: whatever recorded actions were made between the selection of a     *)
(* file and the end of its read, one undo() made right after the import    *)
(* has replaced the registry brings back the registry as it was just       *)
(* before the import replaced it.                                          *)
C39_UndoRestoresPreImport ==
    [][lastOp'.name = "import" =>
          Entities(undo(Current').objects) = Entities(objects)]_vars

\* the same for the imports whose read ends before any other handler runs
C39_UndoRestoresWhenReadAtOnce ==
    [][(lastOp'.name = "import" /\ lastOp.name = "importchange") =>
          Entities(undo(Current').objects) = Entities(objects)]_vars

\* every mesh whose creation animation has no frame left has scale (1, 1, 1)
Settled(objs, pending) ==
    \A k \in 1..Len(objs) : objs[k].ref \notin pending => objs[k].scale = << 10, 10, 10 >>

(* C40: however additions, frames of the creation animations, record(),    *)
(* undo() and redo() are interleaved, once no animation frame is pending   *)
(* every mesh whose scale was never edited has scale (1, 1, 1): no         *)
(* snapshot taken during an animation brings a mesh back at the scale the  *)
(* animation had reached.                                                  *)
C40_AnimationsSettle ==
    anims = {} => Settled(objects, {})

\* no step but an undo or a redo that loads a snapshot leaves a mesh without
\* pending frames below its scale
C40_SettledUnlessLoaded ==
    [][(Settled(objects, anims) /\ ~lastOp'.loaded) => Settled(objects', anims')]_vars

\* an undo has brought back a box at the scale its animation began with, and
\* no animation frame is pending
C40_FrozenSmall ==
    /\ lastOp.name = "undo" /\ lastOp.loaded
    /\ anims = {}
    /\ Len(objects) = 1 /\ objects[1].scale = << 1, 1, 1 >>

====
